---- MODULE Spec2Model ----
(***************************************************************************)
(* The wire protocol and transport framing of NyxNetGameServer: the typed  *)
(* value codec (VarInt, VarLong, ProtocolWriter, ProtocolReader), the      *)
(* packet framer (Checksum, Cipher, Packet), the packet receive loop of    *)
(* the servers, and the WebSocket engine of nyx-ws.ts (frame parsing,      *)
(* fragment reassembly, client and server handshake).                      *)
(*                                                                         *)
(* A byte is a number in 0..255 and a Buffer a sequence of bytes.  A JS    *)
(* number is kept exactly, as sign, magnitude and binary scale:            *)
(*   [t |-> "num", neg, mag, s]  is  (-1)^neg * Val(mag) / 2^s             *)
(* where mag is the magnitude's binary digits, least significant first,    *)
(* with no leading zero digit, and s > 0 only for an odd magnitude (so a   *)
(* number has one representation and s = 0 exactly for the integers).      *)
(* NaN and the infinities are [t |-> "num", sp |-> ...].                   *)
(***************************************************************************)
EXTENDS Integers, Sequences, FiniteSets, TLC

VARIABLES
    cin,        \* codec: the input drawn for the pure functions
    cout,       \* codec: what the applied function returned
    \* a server's packet connection (NameServer / ChatServer.handleConnection)
    connBuffer, \* the handler's receive buffer (let buffer)
    delivered,  \* the packets passed to handlePacket, in order
    lastErr,    \* outcome of the last Packet.parse: "none", "" or the message
    errs,       \* the messages of the errors Packet.parse has thrown
    socket,     \* "open", "ended" (the server ended it), "closed" (close event)
    wire,       \* bytes the peer has written that no read has returned yet
    sent,       \* what the peer has written, packet by packet
    nreads,     \* number of 'data' events so far, counted up to MaxReads
    \* nyx-ws.ts: one net.Socket, its SocketContainer and its handshake
    conn,       \* the socket and the NyxWSClient / NyxWSConnection built on it
    hs,         \* the handshake closure: its buffer, its 'data' listener, key
    server,     \* NyxWSServer: the tracked clients and the events it emitted
    peer,       \* the other end: bytes in flight, bytes delivered, writes made
    bridge,     \* WebSocketBridge's session for the connection: its closure
    \* the servers above the protocol
    app         \* the fields of one MasterServer, NameServer, APIKeyAuthPlugin
                \* or ChatServer, and what its last handler sent

---------------------------------------------------------------------------
(* Binary digits *)

Bits(n, w) == [i \in 1..w |-> (n \div (2 ^ (i - 1))) % 2]

RECURSIVE Val(_)
Val(b) == IF b = <<>> THEN 0 ELSE b[1] + 2 * Val(Tail(b))

RECURSIVE TrimHi(_)
TrimHi(b) ==
    IF b # <<>> /\ b[Len(b)] = 0 THEN TrimHi(SubSeq(b, 1, Len(b) - 1)) ELSE b

Zeros(n) == [i \in 1..n |-> 0]

\* b + 1 on a digit sequence (one digit longer on carry out)
RECURSIVE BitInc(_)
BitInc(b) ==
    IF b = <<>> THEN <<1>>
    ELSE IF b[1] = 0 THEN <<1>> \o Tail(b)
    ELSE <<0>> \o BitInc(Tail(b))

\* a ^ b and a | b on bytes
Xor(a, b) ==
    LET D(k) == k * (((a \div k) + (b \div k)) % 2)
    IN D(1) + D(2) + D(4) + D(8) + D(16) + D(32) + D(64) + D(128)

---------------------------------------------------------------------------
(* JS numbers *)

NaN == [t |-> "num", sp |-> "NaN"]
Infinity(neg) == [t |-> "num", sp |-> "Infinity", neg |-> neg]

\* (-1)^neg * Val(bits) * 2^x, normalised
RECURSIVE MkNum(_, _, _)
MkNum(neg, bits, x) ==
    LET b == TrimHi(bits) IN
    IF b = <<>> THEN [t |-> "num", neg |-> neg, mag |-> <<>>, s |-> 0]
    ELSE IF x >= 0 THEN [t |-> "num", neg |-> neg, mag |-> Zeros(x) \o b, s |-> 0]
    ELSE IF b[1] = 0 THEN MkNum(neg, Tail(b), x + 1)
    ELSE [t |-> "num", neg |-> neg, mag |-> b, s |-> -x]

IntMin == -2147483647 - 1

FromInt(n) ==
    IF n >= 0 THEN MkNum(FALSE, Bits(n, 31), 0)
    ELSE IF n = IntMin THEN MkNum(TRUE, Zeros(31) \o <<1>>, 0)
    ELSE MkNum(TRUE, Bits(-n, 31), 0)

IsFinite(v) == "mag" \in DOMAIN v
IsInteger(v) == IsFinite(v) /\ v.s = 0

C32_FitsInt31(v) == IsInteger(v) /\ Len(v.mag) <= 30

\* a finite integer within the signed 32-bit range, as a TLC integer
FitsInt32(v) ==
    IsInteger(v) /\ (Len(v.mag) <= 31 \/ (v.neg /\ v.mag = Zeros(31) \o <<1>>))
ToInt(v) ==
    IF Len(v.mag) = 32 THEN IntMin
    ELSE IF v.neg THEN -Val(v.mag) ELSE Val(v.mag)

\* the low w digits of the two's complement of the integer v
TwosComplement(v, w) ==
    LET low == [i \in 1..w |-> IF i <= Len(v.mag) THEN v.mag[i] ELSE 0]
        inv == [i \in 1..w |-> 1 - low[i]]
    IN IF v.neg /\ \E i \in 1..w : low[i] = 1
       THEN SubSeq(BitInc(inv), 1, w)
       ELSE low

\* A two's complement digit pattern (int16, int32) read as a signed integer
SignedOf(pattern) ==
    IF pattern[Len(pattern)] = 0 THEN MkNum(FALSE, pattern, 0)
    ELSE MkNum(TRUE, BitInc([i \in 1..Len(pattern) |-> 1 - pattern[i]]), 0)

\* Round a positive binary magnitude bits * 2^x to the nearest multiple of
\* 2^q, ties to even; the result counts units of 2^q (a digit sequence).
RoundTo(bits, x, q) ==
    LET k == q - x IN
    IF k <= 0 THEN Zeros(-k) \o bits
    ELSE LET kept == IF k >= Len(bits) THEN <<>> ELSE SubSeq(bits, k + 1, Len(bits))
             half == k <= Len(bits) /\ bits[k] = 1
             sticky == \E i \in 1..(k - 1) : i <= Len(bits) /\ bits[i] = 1
             odd == kept # <<>> /\ kept[1] = 1
         IN IF half /\ (sticky \/ odd) THEN BitInc(kept) ELSE kept

---------------------------------------------------------------------------
(* VarInt and VarLong *)

\* VarInt.encode(value), value an integer: value >>> 0 when negative, then
\* 7-bit groups of the unsigned 32-bit value, least significant first.
RECURSIVE VarIntLoop(_)
VarIntLoop(v) ==
    LET u == TwosComplement(v, 32)
        low == Val(SubSeq(u, 1, 7))
    IN IF ~v.neg /\ Len(v.mag) > 7
       THEN <<low + 128>> \o VarIntLoop(MkNum(FALSE, SubSeq(u, 8, 32), 0))
       ELSE <<low>>
VarIntEncode(v) ==
    VarIntLoop(IF v.neg THEN MkNum(FALSE, TwosComplement(v, 32), 0) ELSE v)

\* buffer[i] for a 0-based index; -1 stands for undefined (out of range)
At(buffer, i) == IF i >= 0 /\ i < Len(buffer) THEN buffer[i + 1] ELSE -1

\* VarInt.decode(buffer, offset): value |= (byte & 0x7f) << shift on int32,
\* the shift count taken modulo 32 as JS does.
RECURSIVE VarIntDecodeLoop(_, _, _, _)
VarIntDecodeLoop(buffer, offset, bytesRead, value) ==
    IF offset + bytesRead >= Len(buffer)
    THEN [err |-> "Buffer underflow"]
    ELSE LET byte == At(buffer, offset + bytesRead)
             g == IF byte < 0 THEN Zeros(7) ELSE Bits(byte % 128, 7)
             shift == (7 * bytesRead) % 32
             sh == [i \in 1..32 |->
                      IF i > shift /\ i - shift <= 7 THEN g[i - shift] ELSE 0]
             v == [i \in 1..32 |-> IF value[i] = 1 \/ sh[i] = 1 THEN 1 ELSE 0]
         IN IF byte >= 128
            THEN VarIntDecodeLoop(buffer, offset, bytesRead + 1, v)
            ELSE [err |-> "", value |-> SignedOf(v), bytesRead |-> bytesRead + 1]
VarIntDecode(buffer, offset) == VarIntDecodeLoop(buffer, offset, 0, Zeros(32))

\* VarLong.encode(value): while (bigValue > 0x7f) on a BigInt, so a negative
\* value leaves the loop at once and writes one byte, bigValue & 0x7f.
RECURSIVE VarLongEncode(_)
VarLongEncode(v) ==
    IF ~v.neg /\ Len(v.mag) > 7
    THEN <<Val(SubSeq(v.mag, 1, 7)) + 128>>
             \o VarLongEncode(MkNum(FALSE, SubSeq(v.mag, 8, Len(v.mag)), 0))
    ELSE <<Val(TwosComplement(v, 7))>>

\* VarLong.decode(buffer, offset): BigInt groups, then Number(value), which
\* rounds to the 53 significant digits of a double.
RECURSIVE VarLongDecodeLoop(_, _, _, _)
VarLongDecodeLoop(buffer, offset, bytesRead, value) ==
    IF offset + bytesRead >= Len(buffer)
    THEN [err |-> "Buffer underflow"]
    ELSE LET byte == At(buffer, offset + bytesRead)
             v == value \o (IF byte < 0 THEN Zeros(7) ELSE Bits(byte % 128, 7))
             big == TrimHi(v)
             q == IF Len(big) > 53 THEN Len(big) - 53 ELSE 0
         IN IF byte >= 128
            THEN VarLongDecodeLoop(buffer, offset, bytesRead + 1, v)
            ELSE [err |-> "", value |-> MkNum(FALSE, RoundTo(big, 0, q), q),
                  bytesRead |-> bytesRead + 1]
VarLongDecode(buffer, offset) == VarLongDecodeLoop(buffer, offset, 0, <<>>)

---------------------------------------------------------------------------
(* IEEE 754 single precision, as Buffer.writeFloatBE / readFloatBE *)

\* the 4 big-endian bytes of the float nearest to the number v
FloatBytes(v) ==
    LET pat == IF ~IsFinite(v)
               THEN (IF v.sp = "NaN" THEN 255 * 8388608 + 4194304 ELSE 255 * 8388608)
               ELSE IF v.mag = <<>> THEN 0
               ELSE LET e == Len(v.mag) - 1 - v.s
                        ee == IF e < -126 THEN -126 ELSE e
                    IN IF e > 127 THEN 255 * 8388608
                       ELSE LET sig == Val(RoundTo(v.mag, -v.s, ee - 23))
                                p == (ee + 126) * 8388608 + sig
                            IN IF e >= -126 /\ p >= 255 * 8388608
                               THEN 255 * 8388608 ELSE
                               IF e < -126 THEN sig ELSE p
        sign == IF "neg" \in DOMAIN v /\ v.neg THEN 128 ELSE 0
    IN <<sign + (pat \div 16777216), (pat \div 65536) % 256,
         (pat \div 256) % 256, pat % 256>>

\* the number the 4 big-endian bytes b denote
FloatValue(b) ==
    LET neg == b[1] >= 128
        eb == (b[1] % 128) * 2 + (b[2] \div 128)
        frac == (b[2] % 128) * 65536 + b[3] * 256 + b[4]
    IN IF eb = 255 THEN (IF frac = 0 THEN Infinity(neg) ELSE NaN)
       ELSE IF eb = 0 THEN MkNum(neg, Bits(frac, 23), -149)
       ELSE MkNum(neg, Bits(frac + 8388608, 24), eb - 150)

\* the number the 8 big-endian bytes b denote (readDoubleBE)
DoubleValue(b) ==
    LET neg == b[1] >= 128
        eb == (b[1] % 128) * 16 + (b[2] \div 16)
        frac == Bits(b[8], 8) \o Bits(b[7], 8) \o Bits(b[6], 8) \o Bits(b[5], 8)
                  \o Bits(b[4], 8) \o Bits(b[3], 8) \o Bits(b[2] % 16, 4)
    IN IF eb = 2047 THEN (IF TrimHi(frac) = <<>> THEN Infinity(neg) ELSE NaN)
       ELSE IF eb = 0 THEN MkNum(neg, frac, -1074)
       ELSE MkNum(neg, frac \o <<1>>, eb - 1075)

---------------------------------------------------------------------------
(* UTF-8, as Buffer.from(str, 'utf8') and buffer.toString('utf8').  A      *)
(* string is a sequence of Unicode scalar values; 65533 is U+FFFD.         *)

RECURSIVE Utf8Encode(_)
Utf8Encode(str) ==
    IF str = <<>> THEN <<>>
    ELSE LET c == str[1] IN
      (IF c < 128 THEN <<c>>
       ELSE IF c < 2048 THEN <<192 + (c \div 64), 128 + (c % 64)>>
       ELSE IF c < 65536
            THEN <<224 + (c \div 4096), 128 + ((c \div 64) % 64), 128 + (c % 64)>>
       ELSE <<240 + (c \div 262144), 128 + ((c \div 4096) % 64),
              128 + ((c \div 64) % 64), 128 + (c % 64)>>)
      \o Utf8Encode(Tail(str))

\* Buffer.toString('utf8'): an ill-formed sequence decodes to U+FFFD, one
\* for each maximal part of a sequence that could have been well-formed
Utf8Decode(b) ==
    LET n == Len(b)
        \* the continuation bytes a lead byte asks for, and the range of the k-th
        Need(c) == IF c >= 194 /\ c <= 223 THEN 1
                   ELSE IF c >= 224 /\ c <= 239 THEN 2
                   ELSE IF c >= 240 /\ c <= 244 THEN 3 ELSE 0
        Lo(c, k) == IF k = 1 /\ c = 224 THEN 160 ELSE IF k = 1 /\ c = 240 THEN 144 ELSE 128
        Hi(c, k) == IF k = 1 /\ c = 237 THEN 159 ELSE IF k = 1 /\ c = 244 THEN 143 ELSE 191
        Cont(j, k) == j + k <= n /\ b[j + k] >= Lo(b[j], k) /\ b[j + k] <= Hi(b[j], k)
        \* the bytes after position j that are decoded together with b[j]
        Taken(j) == Cardinality({m \in 1..Need(b[j]) : \A k \in 1..m : Cont(j, k)})
        Start(i) == \A j \in (i - 3)..(i - 1) : j < 1 \/ j + Taken(j) < i
        Unit(i) ==
            IF b[i] < 128 THEN b[i]
            ELSE IF Need(b[i]) = 0 \/ Taken(i) < Need(b[i]) THEN 65533
            ELSE IF Need(b[i]) = 1 THEN (b[i] - 192) * 64 + (b[i + 1] - 128)
            ELSE IF Need(b[i]) = 2
            THEN (b[i] - 224) * 4096 + (b[i + 1] - 128) * 64 + (b[i + 2] - 128)
            ELSE (b[i] - 240) * 262144 + (b[i + 1] - 128) * 4096
                   + (b[i + 2] - 128) * 64 + (b[i + 3] - 128)
        Units(starts) == [k \in 1..Len(starts) |-> Unit(starts[k])]
    IN Units(SelectSeq([i \in 1..n |-> i], Start))

---------------------------------------------------------------------------
(* JS values: [t |-> "null"], [t |-> "undefined"], [t |-> "bool", b],      *)
(* numbers as above, [t |-> "str", cp] (code points), [t |-> "buf", bytes],*)
(* [t |-> "arr", items], and [t |-> "obj", ent]: an object's own           *)
(* properties in insertion order, each <<key, value>> with a distinct key. *)

Undefined == [t |-> "undefined"]
TYPE == [NULL |-> 0, BOOL |-> 1, BYTE |-> 2, SHORT |-> 3, INT |-> 4, LONG |-> 5,
         FLOAT |-> 6, DOUBLE |-> 7, STRING |-> 8, BYTES |-> 9, ARRAY |-> 10,
         MAP |-> 11, VEC2 |-> 12, VEC3 |-> 13]

\* obj[key]
Get(obj, key) ==
    IF \E i \in 1..Len(obj.ent) : obj.ent[i][1] = key
    THEN obj.ent[CHOOSE i \in 1..Len(obj.ent) : obj.ent[i][1] = key][2]
    ELSE Undefined

\* value = +value, the coercion Buffer.writeFloatBE applies to its argument
RECURSIVE ToNumber(_)
ToNumber(v) ==
    CASE v.t = "num" -> v
      [] v.t = "null" -> FromInt(0)
      [] v.t = "bool" -> FromInt(IF v.b THEN 1 ELSE 0)
      [] v.t = "str" -> IF v.cp = <<>> THEN FromInt(0) ELSE NaN
      [] v.t = "arr" -> IF v.items = <<>> THEN FromInt(0)
                        ELSE IF Len(v.items) = 1 /\ v.items[1].t \in {"num", "str", "arr"}
                             THEN ToNumber(v.items[1])
                        ELSE IF Len(v.items) = 1 /\ v.items[1].t \in {"null", "undefined"}
                             THEN FromInt(0)
                        ELSE NaN
      [] OTHER -> NaN

\* buf.writeInt8 / writeInt16BE / writeInt32BE of an integer in range, and
\* writeByte's value & 0xff: n big-endian bytes of the two's complement
IntBE(v, n) ==
    LET tc == TwosComplement(v, 8 * n)
    IN [i \in 1..n |-> Val(SubSeq(tc, 8 * (n - i) + 1, 8 * (n - i) + 8))]

\* buf.readInt16BE / readInt32BE: big-endian bytes as a signed integer
SignedBE(b) ==
    LET n == Len(b)
    IN SignedOf([i \in 1..(8 * n) |->
                   Bits(b[n - ((i - 1) \div 8)], 8)[((i - 1) % 8) + 1]])

---------------------------------------------------------------------------
(* ProtocolWriter: each operator returns the bytes the method appends *)

WriteString(str) ==
    IF str = <<>> THEN VarIntEncode(FromInt(0))
    ELSE LET buf == Utf8Encode(str) IN VarIntEncode(FromInt(Len(buf))) \o buf

WriteBytes(bytes) == VarIntEncode(FromInt(Len(bytes))) \o bytes

RECURSIVE WriteValue(_)
WriteValue(value) ==
    LET RECURSIVE Items(_)
        Items(items) ==
            IF items = <<>> THEN <<>>
            ELSE WriteValue(items[1]) \o Items(Tail(items))
        RECURSIVE Entries(_)
        Entries(ent) ==
            IF ent = <<>> THEN <<>>
            ELSE WriteString(ent[1][1]) \o WriteValue(ent[1][2]) \o Entries(Tail(ent))
        Has(k) == Get(value, <<k>>) # Undefined
        Float(k) == FloatBytes(ToNumber(Get(value, <<k>>)))
    IN CASE value.t \in {"null", "undefined"} -> <<TYPE.NULL>>
         [] value.t = "bool" -> <<TYPE.BOOL, IF value.b THEN 1 ELSE 0>>
         [] value.t = "num" ->
              IF IsInteger(value)
              THEN IF ~FitsInt32(value)
                   THEN <<TYPE.LONG>> \o VarLongEncode(value)
                   ELSE IF ToInt(value) >= -128 /\ ToInt(value) <= 127
                   THEN <<TYPE.BYTE>> \o IntBE(value, 1)
                   ELSE IF ToInt(value) >= -32768 /\ ToInt(value) <= 32767
                   THEN <<TYPE.SHORT>> \o IntBE(value, 2)
                   ELSE <<TYPE.INT>> \o IntBE(value, 4)
              ELSE <<TYPE.FLOAT>> \o FloatBytes(value)
         [] value.t = "str" -> <<TYPE.STRING>> \o WriteString(value.cp)
         [] value.t = "buf" -> <<TYPE.BYTES>> \o WriteBytes(value.bytes)
         [] value.t = "arr" ->
              <<TYPE.ARRAY>> \o VarIntEncode(FromInt(Len(value.items)))
                  \o Items(value.items)
         [] value.t = "obj" ->
              IF Has(120) /\ Has(121) /\ Has(122)
              THEN <<TYPE.VEC3>> \o Float(120) \o Float(121) \o Float(122)
              ELSE IF Has(120) /\ Has(121)
              THEN <<TYPE.VEC2>> \o Float(120) \o Float(121)
              ELSE <<TYPE.MAP>> \o VarIntEncode(FromInt(Len(value.ent)))
                       \o Entries(value.ent)

WriteMap(map) ==
    LET RECURSIVE Entries(_)
        Entries(ent) ==
            IF ent = <<>> THEN <<>>
            ELSE WriteString(ent[1][1]) \o WriteValue(ent[1][2]) \o Entries(Tail(ent))
    IN VarIntEncode(FromInt(Len(map.ent))) \o Entries(map.ent)

---------------------------------------------------------------------------
(* ProtocolReader: a read returns [err |-> "", val, off] (the value and the *)
(* reader's new offset) or [err |-> message] when the method throws.        *)

\* buffer.slice(start, end) / subarray: a negative index counts from the end
Slice(buffer, start, end) ==
    LET n == Len(buffer)
        Idx(i) == IF i < 0 THEN (IF n + i < 0 THEN 0 ELSE n + i)
                  ELSE IF i > n THEN n ELSE i
    IN SubSeq(buffer, Idx(start) + 1, Idx(end))

Underflow == [err |-> "Buffer underflow"]

\* the rest of a method after a read: an error thrown by the read propagates
Bind(r, Rest(_)) == IF r.err # "" THEN r ELSE Rest(r)

\* read(length)
Read(buffer, off, length) ==
    IF off + length <= Len(buffer)
    THEN [err |-> "", val |-> Slice(buffer, off, off + length), off |-> off + length]
    ELSE Underflow

ReadByte(buffer, off) ==
    IF off + 1 <= Len(buffer)
    THEN [err |-> "", val |-> At(buffer, off), off |-> off + 1]
    ELSE Underflow

ReadVarInt(buffer, off) ==
    Bind(VarIntDecode(buffer, off),
         LAMBDA r : [err |-> "", val |-> ToInt(r.value), off |-> off + r.bytesRead])

\* readShort, readInt, readFloat, readDouble: Buffer.readXxxBE(offset) checks
\* the offset itself and throws a RangeError, not 'Buffer underflow'
ReadFixed(buffer, off, n) ==
    IF off >= 0 /\ off + n <= Len(buffer)
    THEN [err |-> "", val |-> SubSeq(buffer, off + 1, off + n), off |-> off + n]
    ELSE [err |-> "RangeError"]

ReadFloat(buffer, off) ==
    Bind(ReadFixed(buffer, off, 4), LAMBDA r : [r EXCEPT !.val = FloatValue(r.val)])

\* readString: toString('utf8', start, end) clamps and never throws
ReadString(buffer, off) ==
    Bind(ReadVarInt(buffer, off),
         LAMBDA l :
           IF l.val = 0 THEN [l EXCEPT !.val = <<>>]
           ELSE [err |-> "",
                 val |-> Utf8Decode(SubSeq(buffer,
                            (IF l.off < 0 THEN 0 ELSE l.off) + 1,
                            IF l.off + l.val > Len(buffer) THEN Len(buffer)
                            ELSE l.off + l.val)),
                 off |-> l.off + l.val])

ReadBytes(buffer, off) ==
    Bind(ReadVarInt(buffer, off),
         LAMBDA l : IF l.val = 0 THEN [l EXCEPT !.val = <<>>]
                    ELSE Read(buffer, l.off, l.val))

RECURSIVE ReadValue(_, _), ReadArray(_, _), ReadMap(_, _)
ReadValue(buffer, off) ==
    Bind(ReadByte(buffer, off), LAMBDA ty :
      CASE ty.val = TYPE.NULL -> [ty EXCEPT !.val = [t |-> "null"]]
        [] ty.val = TYPE.BOOL ->
             Bind(ReadByte(buffer, ty.off),
                  LAMBDA r : [r EXCEPT !.val = [t |-> "bool", b |-> r.val # 0]])
        [] ty.val = TYPE.BYTE ->
             Bind(ReadByte(buffer, ty.off),
                  LAMBDA r : [r EXCEPT !.val = IF r.val < 0 THEN Undefined
                                               ELSE FromInt(r.val)])
        [] ty.val \in {TYPE.SHORT, TYPE.INT} ->
             Bind(ReadFixed(buffer, ty.off, IF ty.val = TYPE.SHORT THEN 2 ELSE 4),
                  LAMBDA r : [r EXCEPT !.val = SignedBE(r.val)])
        [] ty.val = TYPE.LONG ->
             Bind(VarLongDecode(buffer, ty.off),
                  LAMBDA r : [err |-> "", val |-> r.value, off |-> ty.off + r.bytesRead])
        [] ty.val = TYPE.FLOAT -> ReadFloat(buffer, ty.off)
        [] ty.val = TYPE.DOUBLE ->
             Bind(ReadFixed(buffer, ty.off, 8),
                  LAMBDA r : [r EXCEPT !.val = DoubleValue(r.val)])
        [] ty.val = TYPE.STRING ->
             Bind(ReadString(buffer, ty.off),
                  LAMBDA r : [r EXCEPT !.val = [t |-> "str", cp |-> r.val]])
        [] ty.val = TYPE.BYTES ->
             Bind(ReadBytes(buffer, ty.off),
                  LAMBDA r : [r EXCEPT !.val = [t |-> "buf", bytes |-> r.val]])
        [] ty.val = TYPE.ARRAY -> ReadArray(buffer, ty.off)
        [] ty.val = TYPE.MAP -> ReadMap(buffer, ty.off)
        [] ty.val \in {TYPE.VEC2, TYPE.VEC3} ->
             Bind(ReadFloat(buffer, ty.off), LAMBDA x :
             Bind(ReadFloat(buffer, x.off), LAMBDA y :
               IF ty.val = TYPE.VEC2
               THEN [y EXCEPT !.val = [t |-> "obj",
                        ent |-> <<(<<(<<120>>), x.val>>), (<<(<<121>>), y.val>>)>>]]
               ELSE Bind(ReadFloat(buffer, y.off), LAMBDA z :
                      [z EXCEPT !.val = [t |-> "obj",
                         ent |-> <<(<<(<<120>>), x.val>>), (<<(<<121>>), y.val>>),
                                   (<<(<<122>>), z.val>>)>>]])))
        [] OTHER -> [err |-> "Unknown type"])

\* readArray: new Array(length) throws a RangeError for a negative length
ReadArray(buffer, off) ==
    LET RECURSIVE Go(_, _, _, _)
        Go(i, length, o, arr) ==
            IF i >= length
            THEN [err |-> "", val |-> [t |-> "arr", items |-> arr], off |-> o]
            ELSE Bind(ReadValue(buffer, o),
                      LAMBDA r : Go(i + 1, length, r.off, Append(arr, r.val)))
    IN Bind(ReadVarInt(buffer, off),
            LAMBDA l : IF l.val < 0 THEN [err |-> "RangeError"]
                       ELSE Go(0, l.val, l.off, <<>>))

\* readMap: map[key] = value, a repeated key keeps its place and is overwritten
ReadMap(buffer, off) ==
    LET Set(ent, key, value) ==
            IF \E i \in 1..Len(ent) : ent[i][1] = key
            THEN [i \in 1..Len(ent) |-> IF ent[i][1] = key THEN <<key, value>> ELSE ent[i]]
            ELSE Append(ent, <<key, value>>)
        RECURSIVE Go(_, _, _, _)
        Go(i, length, o, ent) ==
            IF i >= length
            THEN [err |-> "", val |-> [t |-> "obj", ent |-> ent], off |-> o]
            ELSE Bind(ReadString(buffer, o), LAMBDA k :
                 Bind(ReadValue(buffer, k.off), LAMBDA r :
                   Go(i + 1, length, r.off, Set(ent, k.val, r.val))))
    IN Bind(ReadVarInt(buffer, off), LAMBDA l : Go(0, l.val, l.off, <<>>))

---------------------------------------------------------------------------
(* Checksum, Cipher, Packet *)

C21_SevenBitSum(buffer) ==
    LET RECURSIVE Sum(_)
        Sum(b) == IF b = <<>> THEN 0 ELSE (Sum(SubSeq(b, 1, Len(b) - 1)) + b[Len(b)]) % 128
    IN Xor(Sum(buffer), 170)

ChecksumCalculate(buffer) ==
    LET RECURSIVE Sum(_)
        Sum(b) == IF b = <<>> THEN 0 ELSE (Sum(SubSeq(b, 1, Len(b) - 1)) + b[Len(b)]) % 256
    IN Xor(Sum(buffer), 170)

ChecksumVerify(buffer, expectedChecksum) == ChecksumCalculate(buffer) = expectedChecksum

C22_PositionAdded(key, buffer) ==
    <<>> \o [i \in 1..Len(buffer) |-> (Xor(buffer[i], key) + (i - 1)) % 256]

\* new Cipher(key).encrypt(buffer); decrypt is the same function
Encrypt(key, buffer) ==
    <<>> \o [i \in 1..Len(buffer) |-> Xor(Xor(buffer[i], key), (i - 1) % 256)]

\* new Cipher().encrypt(buffer)
CipherKey == 94
CipherEncrypt(buffer) == Encrypt(CipherKey, buffer)

C23_ChecksumOfPayload(opcode, data, encrypt) ==
    LET payload == IF encrypt THEN CipherEncrypt(WriteMap(data)) ELSE WriteMap(data)
    IN <<66, 78, 1, IF encrypt THEN 1 ELSE 0, opcode % 256>>
         \o VarIntEncode(FromInt(Len(payload))) \o payload \o <<ChecksumCalculate(payload)>>

PacketCreate(opcode, data, encrypt) ==
    LET Sealed(packetData) == Append(packetData, ChecksumCalculate(packetData))
        Framed(payload) ==
            Sealed(<<66, 78, 1, IF encrypt THEN 1 ELSE 0, opcode % 256>>
                     \o VarIntEncode(FromInt(Len(payload))) \o payload)
        Ciphered(payload) == IF encrypt THEN CipherEncrypt(payload) ELSE payload
    IN Framed(Ciphered(WriteMap(data)))

\* Packet.parse(buffer): [err |-> "", opcode, data, isEncrypted], or the error
PacketParse(buffer) ==
    Bind(ReadByte(buffer, 0), LAMBDA magic1 :
    Bind(ReadByte(buffer, 1), LAMBDA magic2 :
      IF magic1.val # 66 \/ magic2.val # 78 THEN [err |-> "Invalid packet magic"]
      ELSE
    Bind(ReadByte(buffer, 2), LAMBDA version :
      IF version.val # 1 THEN [err |-> "Unsupported version"]
      ELSE
    Bind(ReadByte(buffer, 3), LAMBDA flags :
    Bind(ReadByte(buffer, 4), LAMBDA opcode :
    Bind(ReadVarInt(buffer, 5), LAMBDA payloadLength :
    Bind(Read(buffer, payloadLength.off, payloadLength.val), LAMBDA payload :
    Bind(ReadByte(buffer, payload.off), LAMBDA checksum :
      IF ~ChecksumVerify(Slice(buffer, 0, Len(buffer) - 1), checksum.val)
      THEN [err |-> "Checksum mismatch"]
      ELSE
    Bind(ReadMap(IF flags.val % 2 = 1 THEN CipherEncrypt(payload.val)
                 ELSE payload.val, 0), LAMBDA data :
      [err |-> "", opcode |-> opcode.val, data |-> data.val,
       isEncrypted |-> flags.val % 2 = 1])))))))))

---------------------------------------------------------------------------
(* The pure functions of the codec, applied to inputs drawn from bounded   *)
(* sets of Typed Values.                                                   *)

MaxLen == 2      \* longest array / map among the inputs
MaxDepth == 2    \* deepest nesting of arrays and maps among the inputs

SeqsUpTo(S, n) == UNION {[1..k -> S] : k \in 0..n}

\* the arrays and the maps of at most n elements drawn from elems
Containers(elems, keys, n) ==
    {[t |-> "arr", items |-> i] : i \in SeqsUpTo(elems, n)}
    \cup {[t |-> "obj", ent |-> e] :
            e \in {e \in SeqsUpTo(keys \X elems, n) :
                     \A i, j \in 1..Len(e) : i # j => e[i][1] # e[j][1]}}

RECURSIVE Nested(_)
Nested(d) ==
    IF d = 1
    THEN Containers({[t |-> "null"], FromInt(1), FromInt(-1), FromInt(300),
                     [t |-> "str", cp |-> <<97>>]}, {<<97>>, <<120>>, <<121>>}, MaxLen)
    ELSE Containers(Nested(d - 1), {<<97>>}, 1)

\* null, bool, and numbers on both sides of every boundary of the writer's
\* classification; strings "", "a", "e-acute", "ax"; buffers; Vec2 and Vec3,
\* plain objects { x, y [, z] } of floats; arrays and maps nested up to MaxDepth
TypedValues ==
    LET Scalars ==
            {[t |-> "null"], [t |-> "bool", b |-> TRUE], [t |-> "bool", b |-> FALSE]}
            \cup {FromInt(n) : n \in {0, 1, -1, 127, 128, -128, -129, 255, 32767, 32768,
                                      -32768, -32769, 2147483647, IntMin}}
            \cup {MkNum(FALSE, Zeros(31) \o <<1>>, 0), MkNum(TRUE, <<1>> \o Zeros(30) \o <<1>>, 0),
                  MkNum(FALSE, <<1, 0, 1>> \o Zeros(37), 0),
                  MkNum(FALSE, <<1, 1>>, -1), MkNum(TRUE, <<1, 0, 1>>, -1),
                  NaN, Infinity(TRUE)}
            \cup {[t |-> "str", cp |-> c] : c \in {<<>>, <<97>>, <<233>>, <<97, 120>>}}
            \cup {[t |-> "buf", bytes |-> b] : b \in {<<>>, <<0>>, <<255, 1>>}}
        Vectors ==
            LET f == {MkNum(FALSE, <<1, 1>>, -1), MkNum(TRUE, <<1, 0, 1>>, -1)}
            IN {[t |-> "obj", ent |-> <<(<<(<<120>>), x>>), (<<(<<121>>), y>>)>>] : x, y \in f}
               \cup {[t |-> "obj", ent |-> <<(<<(<<120>>), x>>), (<<(<<121>>), y>>),
                                            (<<(<<122>>), x>>)>>] : x, y \in f}
    IN Scalars \cup Vectors \cup UNION {Nested(d) : d \in 1..MaxDepth}

\* opcode bytes: 0, HANDSHAKE (0x47), AUTH (0x92), 255
Opcodes == {0, 71, 146, 255}

codecVars == <<cin, cout>>
recvVars == <<connBuffer, delivered, lastErr, errs, socket, wire, sent, nreads>>
wsVars == <<conn, hs, server, peer, bridge>>
vars == <<codecVars, recvVars, wsVars, app>>

\* the variables of the parts of the program a specification leaves at rest
nonCodec == <<recvVars, wsVars, app>>
nonRecv == <<codecVars, wsVars, app>>
nonWs == <<codecVars, recvVars, app>>

CodecIdle == cin = <<>> /\ cout = <<>>

RecvIdle ==
    /\ connBuffer = <<>> /\ delivered = <<>> /\ lastErr = "none" /\ errs = {}
    /\ socket = "open" /\ wire = <<>> /\ sent = <<>> /\ nreads = 0

WsIdle == conn = <<>> /\ hs = <<>> /\ server = <<>> /\ peer = <<>> /\ bridge = <<>>

CodecInit ==
    /\ cin \in [opcode : Opcodes, value : TypedValues, encrypt : BOOLEAN]
    /\ cout = [op |-> "none"]
    /\ RecvIdle /\ WsIdle /\ app = <<>>

\* new ProtocolWriter().writeValue(value) ; toBuffer()
DoWriteValue ==
    /\ cout.op = "none"
    /\ cout' = [op |-> "writeValue", bytes |-> WriteValue(cin.value)]
    /\ UNCHANGED <<cin, nonCodec>>

\* new ProtocolReader(bytes).readValue()
DoReadValue ==
    /\ cout.op = "writeValue"
    /\ cout' = [op |-> "readValue", bytes |-> cout.bytes,
                res |-> ReadValue(cout.bytes, 0)]
    /\ UNCHANGED <<cin, nonCodec>>

\* Packet.create(opcode, data, encrypt)
DoCreate ==
    /\ "encrypt" \in DOMAIN cin
    /\ cout = [op |-> "none"]
    /\ cin.value.t = "obj"
    /\ cout' = [op |-> "create",
                bytes |-> PacketCreate(cin.opcode, cin.value, cin.encrypt)]
    /\ UNCHANGED <<cin, nonCodec>>

\* Packet.parse(bytes)
DoParse ==
    /\ "encrypt" \in DOMAIN cin
    /\ cout.op = "create"
    /\ cout' = [cout EXCEPT !.op = "parse"] @@ [res |-> PacketParse(cout.bytes)]
    /\ UNCHANGED <<cin, nonCodec>>

\* new ProtocolReader(buffer).readValue(), where buffer is the written bytes
\* cut short, or with the discriminant byte replaced by one outside TYPE
DoReadCut ==
    /\ cout.op = "writeValue"
    /\ \E length \in 0..Len(cout.bytes), type \in {cout.bytes[1], 14, 255} :
         /\ length < Len(cout.bytes) \/ type # cout.bytes[1]
         /\ length = 0 => type = cout.bytes[1]
         /\ cout' = [op |-> "readCut", written |-> cout.bytes,
                     bytes |-> SubSeq(<<type>> \o Tail(cout.bytes), 1, length),
                     res |-> ReadValue(SubSeq(<<type>> \o Tail(cout.bytes), 1, length), 0)]
    /\ UNCHANGED <<cin, nonCodec>>

CodecNext == DoWriteValue \/ DoReadValue \/ DoCreate \/ DoParse \/ DoReadCut

SpecCodec == CodecInit /\ [][CodecNext]_vars

(* C5: for every Typed Value v, readValue applied to the bytes writeValue   *)
(* produced for v returns v and consumes exactly those bytes.               *)
C5_ValueRoundTrip ==
    cout.op = "readValue" =>
        cout.res = [err |-> "", val |-> cin.value, off |-> Len(cout.bytes)]

(* C1: for every opcode byte, payload map and encrypt flag,                 *)
(* Packet.parse(Packet.create(opcode, map, encrypt)) succeeds and returns   *)
(* exactly (opcode, map, encrypt).                                          *)
C1_PacketRoundTrip ==
    cout.op = "parse" =>
        cout.res = [err |-> "", opcode |-> cin.opcode, data |-> cin.value,
                    isEncrypted |-> cin.encrypt]

---------------------------------------------------------------------------
(* The packet receive loop of NameServer.handleConnection; the data        *)
(* handlers of ChatServer.handleConnection and of the bridge's tcpSocket   *)
(* are the same loop.  The peer writes packets, well-formed or corrupted,  *)
(* and the stream returns them to the handler in reads of any size.        *)

MaxPackets == 2     \* packets the peer writes on one connection
MaxReads == 2       \* 'data' events that are counted

\* PING {}, REGISTER_SERVER {a: 1}, CHAT_MESSAGE {a: "ax"} ciphered,
\* HANDSHAKE {a: -1}
SamplePackets ==
    {PacketCreate(51, [t |-> "obj", ent |-> <<>>], FALSE),
     PacketCreate(82, [t |-> "obj", ent |-> <<(<<(<<97>>), FromInt(1)>>)>>], FALSE),
     PacketCreate(112, [t |-> "obj",
                        ent |-> <<(<<(<<97>>), [t |-> "str", cp |-> <<97, 120>>]>>)>>], TRUE),
     PacketCreate(71, [t |-> "obj", ent |-> <<(<<(<<97>>), FromInt(-1)>>)>>], FALSE)}

\* a packet with its magic, its version or its checksum byte changed
Corrupted ==
    {[p EXCEPT ![i] = (p[i] + 1) % 256] :
        p \in {PacketCreate(51, [t |-> "obj", ent |-> <<>>], FALSE)},
        i \in {1, 2, 3, 8}}

\* the catch block without its 'Buffer underflow' case
C3_CatchDropsBuffer(buf, message) == <<>>

\* the catch block of the loop: what is left of the buffer after a parse
\* attempt on buf threw an error with this message
Catch(buf, message) == IF message = "Buffer underflow" THEN buf ELSE <<>>

\* the while loop of the data handler, from the buffer after Buffer.concat
RECURSIVE ReceiveLoop(_, _, _)
ReceiveLoop(buf, handled, thrown) ==
    LET Try(packet) ==
            IF packet.err = ""
            THEN ReceiveLoop(<<>>, Append(handled, packet), thrown)
            ELSE [buffer |-> Catch(buf, packet.err), handled |-> handled,
                  thrown |-> Append(thrown, packet.err)]
    IN IF Len(buf) >= 6 THEN Try(PacketParse(buf))
       ELSE [buffer |-> buf, handled |-> handled, thrown |-> thrown]

RecvInit == CodecIdle /\ RecvIdle /\ WsIdle /\ app = <<>>

\* the peer writes one packet
PeerWrite ==
    /\ socket = "open"
    /\ Len(sent) < MaxPackets
    /\ \E p \in SamplePackets \cup Corrupted :
         /\ sent' = Append(sent, p)
         /\ wire' = wire \o p
    /\ UNCHANGED <<connBuffer, delivered, lastErr, errs, socket, nreads, nonRecv>>

\* socket.on('data'): one read returns the next n bytes of the stream
OnData ==
    /\ socket = "open"
    /\ \E n \in 1..Len(wire) :
       \E r \in {ReceiveLoop(connBuffer \o SubSeq(wire, 1, n), <<>>, <<>>)} :
            /\ connBuffer' = r.buffer
            /\ delivered' = delivered \o r.handled
            /\ lastErr' = IF r.thrown # <<>> THEN r.thrown[Len(r.thrown)]
                          ELSE IF r.handled # <<>> THEN "" ELSE lastErr
            /\ errs' = errs \cup {r.thrown[i] : i \in 1..Len(r.thrown)}
            /\ wire' = SubSeq(wire, n + 1, Len(wire))
    /\ nreads' = IF nreads < MaxReads THEN nreads + 1 ELSE nreads
    /\ UNCHANGED <<socket, sent, nonRecv>>

\* socket.on('close'): the peer has closed the connection
OnClose ==
    /\ socket = "open"
    /\ socket' = "closed"
    /\ UNCHANGED <<connBuffer, delivered, lastErr, errs, wire, sent, nreads, nonRecv>>

RecvNext == PeerWrite \/ OnData \/ OnClose

SpecRecv == RecvInit /\ [][RecvNext]_vars

\* the packets the peer wrote are all well-formed
AllValid == \A i \in 1..Len(sent) : sent[i] \in SamplePackets

(* C2: two valid packets that arrive in a single read are both parsed and   *)
(* delivered to the packet handler, in the order sent, and no byte of       *)
(* either is lost.                                                          *)
C2_CoalescedPackets ==
    (Len(sent) = 2 /\ AllValid /\ nreads = 1 /\ wire = <<>>) =>
        /\ delivered = <<PacketParse(sent[1]), PacketParse(sent[2])>>
        /\ connBuffer = <<>>

(* C3: while one valid packet is arriving split across reads, every parse   *)
(* attempt fails only with 'Buffer underflow', the bytes received stay in   *)
(* the buffer and the handler does not end the connection; the packet is    *)
(* delivered exactly once, by the read that brings its last byte.           *)
C3_SplitPacket ==
    (Len(sent) = 1 /\ AllValid) =>
        /\ errs \subseteq {"Buffer underflow"}
        /\ socket \in {"open", "closed"}
        /\ IF wire # <<>>
           THEN /\ delivered = <<>>
                /\ connBuffer = SubSeq(sent[1], 1, Len(sent[1]) - Len(wire))
           ELSE /\ delivered = <<PacketParse(sent[1])>>
                /\ PacketParse(sent[1]).err = ""
                /\ connBuffer = <<>>

\* a packet arrived in more than one read, with a failed attempt on the way
C3_Witness ==
    /\ Len(sent) = 1 /\ AllValid /\ wire = <<>> /\ nreads = 2
    /\ errs = {"Buffer underflow"} /\ Len(delivered) = 1

(* C4: after Packet.parse failed with invalid magic, unsupported version or *)
(* checksum mismatch the connection is torn down, and nothing from that     *)
(* buffer is delivered to the packet handler.                               *)
C4_TeardownOnParseFailure ==
    lastErr \in {"Invalid packet magic", "Unsupported version", "Checksum mismatch"} =>
        socket = "ended"

---------------------------------------------------------------------------
(* nyx-ws.ts: the frame engine of SocketContainer.  The net.Socket and the  *)
(* container built on it are one record:                                    *)
(*   kind        "client" (NyxWSClient) or "server" (NyxWSConnection)       *)
(*   made        the container has been constructed                         *)
(*   mode, buffer, fragments, readyState, isAlive     the fields            *)
(*   sock        "connecting", "open", "ended" (end() called, still read),  *)
(*               "destroyed", "closed" (the 'close' event was emitted)      *)
(*   out         the buffers written to the socket, in order                *)
(*   emits       the emit() calls made on the container, in order           *)
(*   handled     the frames passed to handleFrame, in order, each with the  *)
(*               number of emit() calls and of fragments held after it      *)
(*   fed         the bytes passed to handleData, in order                   *)
(*   thrown      the message of the error a handler threw, "" if none       *)

OpCode == [CONTINUATION |-> 0, TEXT |-> 1, BINARY |-> 2, CLOSE |-> 8,
           PING |-> 9, PONG |-> 10]

ReadyState == [CONNECTING |-> 0, OPEN |-> 1, CLOSING |-> 2, CLOSED |-> 3]

\* the rest of a method after a call: an error thrown by the call propagates
Then(c, Rest(_)) == IF c.thrown # "" THEN c ELSE Rest(c)

Emit(c, event) == [c EXCEPT !.emits = Append(@, event)]

\* NetSocket.write, end, destroy: a write after end() or destroy() is lost
Write(c, bytes) == IF c.sock = "open" THEN [c EXCEPT !.out = Append(@, bytes)] ELSE c
End(c) == IF c.sock = "open" THEN [c EXCEPT !.sock = "ended"] ELSE c
Destroy(c) == IF c.sock = "closed" THEN c ELSE [c EXCEPT !.sock = "destroyed"]

C19_ShortFormTooWide(opcode, payload, masked, maskingKey) ==
    LET payloadLength == Len(payload)
        m == IF masked THEN 128 ELSE 0
        header ==
            IF payloadLength < 127 THEN <<128 + opcode, m + payloadLength>>
            ELSE IF payloadLength < 65536
            THEN <<128 + opcode, m + 126,
                   payloadLength \div 256, payloadLength % 256>>
            ELSE <<128 + opcode, m + 127, 0, 0, 0, 0,
                   payloadLength \div 16777216, (payloadLength \div 65536) % 256,
                   (payloadLength \div 256) % 256, payloadLength % 256>>
    IN IF masked
       THEN header \o maskingKey
              \o [i \in 1..payloadLength |-> Xor(payload[i], maskingKey[((i - 1) % 4) + 1])]
       ELSE header \o payload

\* the frame sendFrame builds
FrameBytes(opcode, payload, masked, maskingKey) ==
    LET payloadLength == Len(payload)
        m == IF masked THEN 128 ELSE 0
        header ==
            IF payloadLength < 126 THEN <<128 + opcode, m + payloadLength>>
            ELSE IF payloadLength < 65536
            THEN <<128 + opcode, m + 126,
                   payloadLength \div 256, payloadLength % 256>>
            ELSE <<128 + opcode, m + 127, 0, 0, 0, 0,
                   payloadLength \div 16777216, (payloadLength \div 65536) % 256,
                   (payloadLength \div 256) % 256, payloadLength % 256>>
    IN IF masked
       THEN header \o maskingKey
              \o [i \in 1..payloadLength |-> Xor(payload[i], maskingKey[((i - 1) % 4) + 1])]
       ELSE header \o payload

\* sendFrame; NyxWSClient's override throws unless the ready-state is OPEN
SendFrame(c, opcode, payload, masked, maskingKey) ==
    IF c.kind = "client" /\ c.readyState # ReadyState.OPEN
    THEN [c EXCEPT !.thrown = "WebSocket is not open"]
    ELSE Write(c, FrameBytes(opcode, payload, masked, maskingKey))

\* close(code, reason); reason is a string
Close(c, code, reason, maskingKey) ==
    IF c.mode = "websocket"
    THEN Then(SendFrame(c, OpCode.CLOSE,
                        <<code \div 256, code % 256>> \o Utf8Encode(reason),
                        c.kind = "client", maskingKey),
              LAMBDA d : End(d))
    ELSE End(c)

\* handleCloseFrame of NyxWSConnection and of NyxWSClient
HandleCloseFrame(c, payload, maskingKey) ==
    IF c.kind = "server" THEN Close(c, 1000, <<>>, maskingKey)
    ELSE Emit(End([c EXCEPT !.readyState = ReadyState.CLOSING]),
              IF Len(payload) >= 2
              THEN [ev |-> "close", code |-> payload[1] * 256 + payload[2],
                    reason |-> Utf8Decode(SubSeq(payload, 3, Len(payload)))]
              ELSE [ev |-> "close", code |-> 1005, reason |-> <<>>])

C31_PingDropsFragments(c, payload, maskingKey) ==
    Then(SendFrame([c EXCEPT !.fragments = <<>>], OpCode.PONG, payload,
                   c.kind = "client", maskingKey),
         LAMBDA d : Emit(d, [ev |-> "ping"]))

HandlePing(c, payload, maskingKey) ==
    Then(SendFrame(c, OpCode.PONG, payload, c.kind = "client", maskingKey),
         LAMBDA d : Emit(d, [ev |-> "ping"]))

C11_PongForgets(c) == Emit(c, [ev |-> "pong"])

\* handlePong; NyxWSConnection's override sets isAlive first
HandlePong(c) ==
    Emit(IF c.kind = "server" THEN [c EXCEPT !.isAlive = TRUE] ELSE c, [ev |-> "pong"])

EmitMessage(c, opcode, payload) ==
    IF opcode = OpCode.TEXT
    THEN Emit(c, [ev |-> "message", data |-> [t |-> "str", cp |-> Utf8Decode(payload)]])
    ELSE Emit(c, [ev |-> "message", data |-> [t |-> "buf", bytes |-> payload]])

\* Buffer.concat(this.fragments.map(f => f.payload))
RECURSIVE FullPayload(_)
FullPayload(fragments) ==
    IF fragments = <<>> THEN <<>>
    ELSE fragments[1].payload \o FullPayload(Tail(fragments))

C6_LastOpcode(fragments) == fragments[Len(fragments)].opcode

\* a reassembled message is tagged this.fragments[0].opcode
OriginalOpcode(fragments) == fragments[1].opcode

HandleFrame(c, fin, opcode, payload, maskingKey) ==
    LET pushed == Append(c.fragments, [opcode |-> opcode, payload |-> payload])
    IN CASE opcode \in {OpCode.TEXT, OpCode.BINARY} ->
              IF ~fin THEN [c EXCEPT !.fragments = pushed]
              ELSE IF c.fragments # <<>>
              THEN EmitMessage([c EXCEPT !.fragments = <<>>], opcode, FullPayload(pushed))
              ELSE EmitMessage(c, opcode, payload)
         [] opcode = OpCode.CONTINUATION ->
              IF fin
              THEN EmitMessage([c EXCEPT !.fragments = <<>>], OriginalOpcode(pushed),
                               FullPayload(pushed))
              ELSE [c EXCEPT !.fragments = pushed]
         [] opcode = OpCode.CLOSE -> HandleCloseFrame(c, payload, maskingKey)
         [] opcode = OpCode.PING -> HandlePing(c, payload, maskingKey)
         [] opcode = OpCode.PONG -> HandlePong(c)
         [] OTHER -> c

\* one pass of handleData's while loop over a buffer of two bytes or more:
\* the frame at its head and the bytes after it, or complete = FALSE where
\* the loop returns to wait for more bytes.  A 64-bit length of 2^24 or more
\* is kept as 2^24: no buffer of the model holds that many bytes.
NextFrame(buffer) ==
    LET byte1 == buffer[1]
        byte2 == buffer[2]
        masked == byte2 >= 128
        short == byte2 % 128
        ext == IF short = 126
               THEN IF Len(buffer) < 4 THEN [offset |-> -1]
                    ELSE [offset |-> 4, payloadLength |-> buffer[3] * 256 + buffer[4]]
               ELSE IF short = 127
               THEN IF Len(buffer) < 10 THEN [offset |-> -1]
                    ELSE [offset |-> 10,
                          payloadLength |->
                             IF \E i \in 3..7 : buffer[i] # 0 THEN 16777216
                             ELSE buffer[8] * 65536 + buffer[9] * 256 + buffer[10]]
               ELSE [offset |-> 2, payloadLength |-> short]
        offset == ext.offset + (IF masked THEN 4 ELSE 0)
        maskingKey == Slice(buffer, ext.offset, ext.offset + 4)
        payload == Slice(buffer, offset, offset + ext.payloadLength)
        Unmasked(p, key) == <<>> \o [i \in 1..Len(p) |-> Xor(p[i], key[((i - 1) % 4) + 1])]
    IN IF ext.offset < 0 THEN [complete |-> FALSE]
       ELSE IF Len(buffer) < offset + ext.payloadLength THEN [complete |-> FALSE]
       ELSE [complete |-> TRUE, fin |-> byte1 >= 128, opcode |-> byte1 % 16,
             payload |-> IF masked THEN Unmasked(payload, maskingKey) ELSE payload,
             rest |-> Slice(buffer, offset + ext.payloadLength, Len(buffer))]

C7_ForgetsBuffer(buffer, data) == data

\* this.buffer.length === 0 ? data : Buffer.concat([this.buffer, data])
Accumulate(buffer, data) == IF Len(buffer) = 0 THEN data ELSE buffer \o data

\* handleData(data); a frame is logged once handleFrame has returned or thrown
HandleData(c, data, maskingKey) ==
    LET RECURSIVE Loop(_)
        Loop(d) ==
            LET Logged(f, e) ==
                    [e EXCEPT !.handled = Append(@,
                        [fin |-> f.fin, opcode |-> f.opcode, payload |-> f.payload,
                         emitted |-> Len(e.emits), frags |-> Len(e.fragments)])]
                Again(e) == IF e.thrown # "" THEN e ELSE Loop(e)
                Pass(f) ==
                    IF ~f.complete THEN d
                    ELSE Again(Logged(f, HandleFrame([d EXCEPT !.buffer = f.rest],
                                                     f.fin, f.opcode, f.payload,
                                                     maskingKey)))
            IN IF Len(d.buffer) >= 2 THEN Pass(NextFrame(d.buffer)) ELSE d
    IN IF c.mode = "tcp"
       THEN Emit([c EXCEPT !.fed = @ \o data],
                 [ev |-> "message", data |-> [t |-> "buf", bytes |-> data]])
       ELSE Loop([c EXCEPT !.buffer = Accumulate(@, data), !.fed = @ \o data])

---------------------------------------------------------------------------
(* nyx-ws.ts: the opening handshake.  A string read with                    *)
(* toString('binary') is kept as its bytes, one per character; the text the *)
(* program writes is given by Bytes.                                        *)

\* the codes of the ASCII characters the texts of the model are written in
CharCode ==
    LET marks == "+,-./0123456789:;<=>?@ABCDEFGHIJKLMNOPQRSTUVWXYZ"
        small == "abcdefghijklmnopqrstuvwxyz"
    IN [ch \in {" ", "\r", "\n"} |-> IF ch = " " THEN 32 ELSE IF ch = "\r" THEN 13 ELSE 10]
         @@ [ch \in {SubSeq(marks, i, i) : i \in 1..Len(marks)} |->
               42 + (CHOOSE i \in 1..Len(marks) : SubSeq(marks, i, i) = ch)]
         @@ [ch \in {SubSeq(small, i, i) : i \in 1..Len(small)} |->
               96 + (CHOOSE i \in 1..Len(small) : SubSeq(small, i, i) = ch)]

\* Buffer.from(text): the bytes of a text of ASCII letters, digits and marks
Bytes(text) == [i \in 1..Len(text) |-> CharCode[SubSeq(text, i, i)]]

\* String.prototype.indexOf, includes, split, toLowerCase, trim
IndexOf(str, pattern) ==
    LET First(at) == IF at = {} THEN -1 ELSE CHOOSE i \in at : \A j \in at : i <= j
    IN First({i \in 0..(Len(str) - Len(pattern)) :
                 SubSeq(str, i + 1, i + Len(pattern)) = pattern})

Includes(str, pattern) == IndexOf(str, pattern) # -1

RECURSIVE Split(_, _)
Split(str, separator) ==
    LET Cut(i) == IF i = -1 THEN <<str>>
                  ELSE <<SubSeq(str, 1, i)>>
                         \o Split(SubSeq(str, i + Len(separator) + 1, Len(str)), separator)
    IN Cut(IndexOf(str, separator))

ToLowerCase(str) ==
    [i \in 1..Len(str) |->
        IF (str[i] >= 65 /\ str[i] <= 90) \/ (str[i] >= 192 /\ str[i] <= 222 /\ str[i] # 215)
        THEN str[i] + 32 ELSE str[i]]

Trim(str) ==
    LET Cut(kept) ==
            IF kept = {} THEN <<>>
            ELSE SubSeq(str, CHOOSE i \in kept : \A j \in kept : i <= j,
                             CHOOSE i \in kept : \A j \in kept : i >= j)
    IN Cut({i \in 1..Len(str) : str[i] \notin {9, 10, 11, 12, 13, 32, 160}})

\* the loop over lines[1..] that fills headerMap: the assignments it makes,
\* in order, each <<key, value>>
HeaderMap(lines) ==
    LET Entry(line, colonIndex) ==
            IF colonIndex > 0
            THEN <<(<<Trim(ToLowerCase(SubSeq(line, 1, colonIndex))),
                      Trim(SubSeq(line, colonIndex + 2, Len(line)))>>)>>
            ELSE <<>>
        RECURSIVE From(_)
        From(i) == IF i > Len(lines) THEN <<>>
                   ELSE Entry(lines[i], IndexOf(lines[i], <<58>>)) \o From(i + 1)
    IN From(2)

\* headerMap[name]: <<value>>, or << >> when the map has no such key
Header(headerMap, name) ==
    LET Last(set) == IF set = {} THEN <<>>
                     ELSE <<headerMap[CHOOSE i \in set : \A j \in set : i >= j][2]>>
    IN Last({i \in 1..Len(headerMap) : headerMap[i][1] = name})

\* headers.split('\r\n') of the header block that opens a message
HeadLines(message) ==
    Split(SubSeq(message, 1, IndexOf(message, Bytes("\r\n\r\n"))), Bytes("\r\n"))

C10_DropsLeftover(str, headerEnd) == <<>>

\* substring(headerEnd + 4): the bytes after the header terminator
Remaining(str, headerEnd) == SubSeq(str, headerEnd + 5, Len(str))

\* createHash('sha1').update(key + GUID).digest('base64').  SHA-1 is not
\* computed: these are the digests of the two keys the model uses
AcceptKey(key) ==
    CASE key = Bytes("dGhlIHNhbXBsZSBub25jZQ==") -> Bytes("s3pPLMBiTxaQ9kYGzzhZRbK+xOo=")
      [] key = Bytes("AAECAwQFBgcICQoLDA0ODw==") -> Bytes("Bz3qJYTGdOe8gUSpLosEdiLKDrk=")

\* the server's response to an accepted upgrade
Response101(acceptKey) ==
    Bytes("HTTP/1.1 101 Switching Protocols\r\nUpgrade: websocket\r\n")
      \o Bytes("Connection: Upgrade\r\nSec-WebSocket-Accept: ") \o acceptKey
      \o Bytes("\r\n\r\n")

\* new NyxWSClient(url) / new NyxWSConnection(socket), and the socket a
\* server has accepted before a container is built on it (made = FALSE)
Container(kind, made) ==
    [kind |-> kind, made |-> made, mode |-> "websocket", buffer |-> <<>>,
     fragments |-> <<>>,
     readyState |-> IF kind = "client" THEN ReadyState.CONNECTING ELSE -1,
     isAlive |-> kind = "server",
     sock |-> IF kind = "client" THEN "connecting" ELSE "open",
     out |-> <<>>, emits |-> <<>>, handled |-> <<>>, fed |-> <<>>, thrown |-> ""]

\* onData of NyxWSServer.listen, on w = [conn, hs, server]
ServerOnData(w, data, maskingKey) ==
    LET BadRequest(c) == End(Write(c, Bytes("HTTP/1.1 400 Bad Request\r\n\r\n")))
        Feed(c, remaining) ==
            IF Len(remaining) > 0 THEN HandleData(c, remaining, maskingKey) ELSE c
        Accept(c, acceptKey, remaining) ==
            Feed([Write(c, Response101(acceptKey)) EXCEPT !.made = TRUE, !.isAlive = TRUE],
                 remaining)
        Checked(v, headerEnd, upgrade, connection, version, key) ==
            IF \/ upgrade = <<>> \/ ToLowerCase(upgrade[1]) # Bytes("websocket")
               \/ connection = <<>>
               \/ ~Includes(ToLowerCase(connection[1]), Bytes("upgrade"))
               \/ version # <<Bytes("13")>>
            THEN [v EXCEPT !.conn = BadRequest(@)]
            ELSE IF key = <<>> \/ key[1] = <<>>
            THEN [v EXCEPT !.conn = BadRequest(@)]
            ELSE [v EXCEPT !.hs.isUpgraded = TRUE, !.hs.listening = FALSE,
                           !.server.clients = @ \cup {1},
                           !.server.emitted = Append(@, [ev |-> "connection"]),
                           !.conn = Accept(@, AcceptKey(key[1]),
                                           Remaining(v.hs.buffer, headerEnd))]
        Mapped(v, headerEnd, headerMap) ==
            Checked(v, headerEnd, Header(headerMap, Bytes("upgrade")),
                    Header(headerMap, Bytes("connection")),
                    Header(headerMap, Bytes("sec-websocket-version")),
                    Header(headerMap, Bytes("sec-websocket-key")))
        Parsed(v, headerEnd, lines) ==
            IF ~Includes(lines[1], Bytes("HTTP/1.1")) THEN [v EXCEPT !.conn = End(@)]
            ELSE Mapped(v, headerEnd, HeaderMap(lines))
        Found(v, headerEnd) ==
            IF headerEnd = -1 THEN v
            ELSE Parsed(v, headerEnd, Split(SubSeq(v.hs.buffer, 1, headerEnd), Bytes("\r\n")))
        Buffered(v) == Found(v, IndexOf(v.hs.buffer, Bytes("\r\n\r\n")))
    IN IF w.hs.isUpgraded THEN w
       ELSE Buffered([w EXCEPT !.hs.buffer = @ \o data])

\* onHandshakeData of NyxWSClient.performHandshake
ClientOnHandshakeData(w, data, maskingKey) ==
    LET Fail(c, message) == Emit(Destroy(c), [ev |-> "error", message |-> message])
        Feed(c, remaining) ==
            IF Len(remaining) > 0 THEN HandleData(c, remaining, maskingKey) ELSE c
        Open(c, remaining) ==
            Then(Feed([c EXCEPT !.readyState = ReadyState.OPEN], remaining),
                 LAMBDA d : Emit(d, [ev |-> "open"]))
        Parsed(v, headerEnd, lines) ==
            IF ~Includes(lines[1], Bytes("101"))
            THEN [v EXCEPT !.conn = Fail(@, "Handshake failed")]
            ELSE IF Header(HeaderMap(lines), Bytes("sec-websocket-accept"))
                      # <<AcceptKey(v.hs.key)>>
            THEN [v EXCEPT !.conn = Fail(@, "Invalid Sec-WebSocket-Accept")]
            ELSE [v EXCEPT !.hs.listening = FALSE,
                           !.conn = Open(@, Remaining(v.hs.buffer, headerEnd))]
        Found(v, headerEnd) ==
            IF headerEnd = -1 THEN v
            ELSE Parsed(v, headerEnd, Split(SubSeq(v.hs.buffer, 1, headerEnd), Bytes("\r\n")))
        Buffered(v) == Found(v, IndexOf(v.hs.buffer, Bytes("\r\n\r\n")))
    IN Buffered([w EXCEPT !.hs.buffer = @ \o data])

\* send(data)
Send(c, data, maskingKey) ==
    LET buffer == IF data.t = "str" THEN Utf8Encode(data.cp) ELSE data.bytes
    IN IF c.mode = "tcp" THEN Write(c, buffer)
       ELSE SendFrame(c, IF data.t = "str" THEN OpCode.TEXT ELSE OpCode.BINARY,
                      buffer, c.kind = "client", maskingKey)

\* NetSocket.on: the listener is added to the net.Socket; the list the
\* container's own emit() walks is left as it was
On(listeners, event, listener) ==
    [listeners EXCEPT !.socket = @ \cup {<<event, listener>>}]

\* the events the container has emitted, as its listeners see them: the
\* bridge's 'message' handler writes each message to tcpSocket
Relay(b, emitted) ==
    IF b = <<>> THEN b
    ELSE LET heard == SelectSeq(emitted, LAMBDA e :
                          <<e.ev, "tcpSocket.write">> \in b.listeners.container)
         IN [b EXCEPT !.written = @ \o [i \in 1..Len(heard) |->
                IF heard[i].data.t = "str" THEN Utf8Encode(heard[i].data.cp)
                ELSE heard[i].data.bytes]]

\* socket.emit('data', data): the listeners registered on the socket when
\* the event is emitted, in the order they were added; an error thrown by
\* one keeps the later ones from running
DataEvent(w, data, maskingKey) ==
    LET Second(v) ==
            IF v.conn.thrown = "" /\ w.hs.listening
            THEN ClientOnHandshakeData(v, data, maskingKey) ELSE v
    IN IF w.conn.kind = "client"
       THEN Second([w EXCEPT !.conn = HandleData(@, data, maskingKey)])
       ELSE IF w.hs.listening THEN ServerOnData(w, data, maskingKey)
       ELSE IF w.conn.made THEN [w EXCEPT !.conn = HandleData(@, data, maskingKey)]
       ELSE w

---------------------------------------------------------------------------
(* The socket's events.  The peer writes a request or a response and then   *)
(* frames; the stream delivers them in 'data' events of any size.           *)

MaxFrames == 3      \* frames the peer sends on an established connection
MaxTail == 1        \* frames the peer sends behind its handshake message
MaxCuts == 1        \* 'data' events that end inside the handshake message

\* crypto.randomBytes(4) for a frame the client writes
MaxPayload == 65536
MaxHeard == 1
MaxBackend == 1
MaxCalls == 2
MaxCipher == 300
MaskKeys == {<<0, 0, 0, 0>>, <<1, 2, 3, 4>>}

\* a frame as a peer may encode it: any fin, opcode, masking, and the
\* payload length in the 7-bit, 16-bit or 64-bit form (form = 7, 16, 64)
PeerFrame(fin, opcode, form, masked, payload) ==
    LET n == Len(payload)
        m == IF masked THEN 128 ELSE 0
        key == <<55, 250, 33, 61>>
    IN <<(IF fin THEN 128 ELSE 0) + opcode>>
         \o (IF form = 7 THEN <<m + n>>
             ELSE IF form = 16 THEN <<m + 126, n \div 256, n % 256>>
             ELSE <<m + 127, 0, 0, 0, 0, 0, n \div 65536, (n \div 256) % 256, n % 256>>)
         \o (IF masked
             THEN key \o [i \in 1..n |-> Xor(payload[i], key[((i - 1) % 4) + 1])]
             ELSE payload)

\* TEXT "a" and BINARY 01 02 opening a fragmented message, CONTINUATION
\* frames C3 and A9 (the two bytes of e-acute), TEXT "ax", PING 07, PONG,
\* CLOSE 1000, and an empty BINARY
PeerFrames ==
    LET F(fin, opcode, form, masked, payload) ==
            [bytes |-> PeerFrame(fin, opcode, form, masked, payload),
             fin |-> fin, opcode |-> opcode, payload |-> payload]
    IN {F(FALSE, OpCode.TEXT, 7, FALSE, <<97>>),
        F(FALSE, OpCode.BINARY, 7, TRUE, <<1, 2>>),
        F(FALSE, OpCode.CONTINUATION, 7, FALSE, <<195>>),
        F(TRUE, OpCode.CONTINUATION, 16, FALSE, <<169>>),
        F(TRUE, OpCode.TEXT, 7, TRUE, <<97, 120>>),
        F(TRUE, OpCode.PING, 7, FALSE, <<7>>),
        F(TRUE, OpCode.PONG, 7, FALSE, <<>>),
        F(TRUE, OpCode.CLOSE, 7, FALSE, <<3, 232>>),
        F(TRUE, OpCode.BINARY, 64, FALSE, <<>>)}

\* crypto.randomBytes(16).toString('base64')
SampleKeys == {Bytes("dGhlIHNhbXBsZSBub25jZQ=="), Bytes("AAECAwQFBgcICQoLDA0ODw==")}

\* the request performHandshake writes for ws://localhost:8080/
ClientRequest(key) ==
    Bytes("GET / HTTP/1.1\r\nHost: localhost:8080\r\nUpgrade: websocket\r\n")
      \o Bytes("Connection: Upgrade\r\nSec-WebSocket-Key: ") \o key
      \o Bytes("\r\nSec-WebSocket-Version: 13\r\n\r\n")

\* requests a peer may send: the client's own, one with other letter case
\* and a Connection list, and ones that break one rule each
Requests ==
    LET R(requestLine, upgrade, connection, version, key) ==
            Bytes(requestLine \o "\r\n" \o upgrade \o connection \o version \o key \o "\r\n")
        U == "Upgrade: websocket\r\n"
        C == "Connection: Upgrade\r\n"
        V == "Sec-WebSocket-Version: 13\r\n"
        K == "Sec-WebSocket-Key: dGhlIHNhbXBsZSBub25jZQ==\r\n"
    IN {ClientRequest(Bytes("AAECAwQFBgcICQoLDA0ODw==")),
        R("GET /chat HTTP/1.1", "UPGRADE: WebSocket\r\n",
          "connection: keep-alive, Upgrade\r\n", V, K),
        R("GET / HTTP/1.0", U, C, V, K),
        R("GET /HTTP/1.1 HTTP/1.0", U, C, V, K),
        R("GET / HTTP/1.1", "Upgrade: h2c\r\n", C, V, K),
        R("GET / HTTP/1.1", U, "Connection: keep-alive\r\n", V, K),
        R("GET / HTTP/1.1", U, C, "Sec-WebSocket-Version: 8\r\n", K),
        R("GET / HTTP/1.1", U, C, V, ""),
        R("GET / HTTP/1.1", U, C, V, "Sec-WebSocket-Key:\r\n")}

\* responses a peer may send to a request carrying key
Responses(key) ==
    {Response101(AcceptKey(key)),
     Response101(AcceptKey(CHOOSE k \in SampleKeys : k # key)),
     Bytes("HTTP/1.1 101 Switching Protocols\r\nUpgrade: websocket\r\n\r\n"),
     Bytes("HTTP/1.1 400 Bad Request\r\n\r\n"),
     Bytes("HTTP/1.1 200 OK 101\r\nSec-WebSocket-Accept: ") \o AcceptKey(key)
        \o Bytes("\r\n\r\n")}

NoHandshake == [buffer |-> <<>>, listening |-> FALSE, isUpgraded |-> FALSE, key |-> <<>>]

Peer(quota) ==
    [hello |-> <<>>, pending |-> <<>>, received |-> <<>>, sent |-> <<>>, quota |-> quota,
     cuts |-> 0]

\* a container past its handshake
Established(kind) ==
    [Container(kind, TRUE) EXCEPT
        !.sock = "open", !.readyState = IF kind = "client" THEN ReadyState.OPEN ELSE @]

FramesInit ==
    /\ CodecIdle /\ RecvIdle /\ app = <<>>
    /\ \E kind \in {"server", "client"} :
         /\ conn = Established(kind)
         /\ server = [clients |-> IF kind = "server" THEN {1} ELSE {}, emitted |-> <<>>]
    /\ hs = [NoHandshake EXCEPT !.isUpgraded = TRUE]
    /\ peer = Peer(MaxFrames)
    /\ bridge = <<>>

\* a socket the server has just accepted: socket.on('data', onData)
ServerInit ==
    /\ CodecIdle /\ RecvIdle /\ app = <<>>
    /\ conn = Container("server", FALSE)
    /\ hs = [NoHandshake EXCEPT !.listening = TRUE]
    /\ server = [clients |-> {}, emitted |-> <<>>]
    /\ peer = Peer(MaxTail)
    /\ bridge = <<>>

\* new NyxWSClient(url), not yet connected
ClientInit ==
    /\ CodecIdle /\ RecvIdle /\ app = <<>>
    /\ conn = Container("client", TRUE)
    /\ hs = NoHandshake
    /\ server = [clients |-> {}, emitted |-> <<>>]
    /\ peer = Peer(MaxTail)
    /\ bridge = <<>>

\* the connect callback: performHandshake up to socket.on('data', ...)
ClientConnect ==
    /\ conn.kind = "client" /\ conn.sock = "connecting"
    /\ \E key \in SampleKeys :
         /\ conn' = Write([conn EXCEPT !.sock = "open"], ClientRequest(key))
         /\ hs' = [hs EXCEPT !.listening = TRUE, !.key = key]
    /\ UNCHANGED <<server, peer, bridge, nonWs>>

PeerRequest ==
    /\ conn.kind = "server" /\ conn.sock = "open" /\ peer.hello = <<>>
    /\ \E r \in Requests :
         peer' = [peer EXCEPT !.hello = r, !.pending = @ \o r]
    /\ UNCHANGED <<conn, hs, server, bridge, nonWs>>

PeerRespond ==
    /\ conn.kind = "client" /\ conn.sock = "open" /\ peer.hello = <<>>
    /\ \E r \in Responses(hs.key) :
         peer' = [peer EXCEPT !.hello = r, !.pending = @ \o r]
    /\ UNCHANGED <<conn, hs, server, bridge, nonWs>>

\* a frame the peer writes; before the upgrade is done, behind its handshake
\* message, one of a final TEXT, a PING or a CLOSE
PeerSendFrame ==
    /\ conn.sock \in {"open", "ended"} /\ conn.thrown = ""
    /\ hs.isUpgraded \/ peer.hello # <<>>
    /\ peer.quota > 0
    /\ \E f \in PeerFrames :
         /\ hs.isUpgraded \/ (f.fin /\ f.opcode \in {OpCode.TEXT, OpCode.PING, OpCode.CLOSE})
         /\ peer' = [peer EXCEPT !.pending = @ \o f.bytes, !.sent = Append(@, f),
                                 !.quota = @ - 1]
    /\ UNCHANGED <<conn, hs, server, bridge, nonWs>>

\* a 'data' event with the next n bytes of the stream.  The client draws a
\* masking key for the frames it writes in the event.
OnSocketData ==
    /\ conn.sock \in {"open", "ended"} /\ conn.thrown = ""
    /\ \E n \in 1..Len(peer.pending),
          maskingKey \in IF conn.kind = "client" THEN MaskKeys ELSE {<<0, 0, 0, 0>>} :
         /\ Len(peer.received) + n < Len(peer.hello) => peer.cuts < MaxCuts
         /\ \E w \in {DataEvent([conn |-> conn, hs |-> hs, server |-> server],
                                SubSeq(peer.pending, 1, n), maskingKey)} :
              /\ conn' = w.conn /\ hs' = w.hs /\ server' = w.server
              /\ bridge' = Relay(bridge, SubSeq(w.conn.emits, Len(conn.emits) + 1,
                                                Len(w.conn.emits)))
         /\ peer' = [peer EXCEPT !.pending = SubSeq(@, n + 1, Len(@)),
                                 !.received = @ \o SubSeq(peer.pending, 1, n),
                                 !.cuts = IF Len(peer.received) + n < Len(peer.hello)
                                          THEN @ + 1 ELSE @]
    /\ UNCHANGED nonWs

\* the socket's 'close' event: the client's listener, or the container's,
\* the one the server added with ws.on('close') and the bridge's
OnSocketClose ==
    /\ conn.sock \in {"open", "ended", "destroyed"} /\ conn.thrown = ""
    /\ conn' =
         IF conn.kind = "client"
         THEN IF conn.readyState # ReadyState.CLOSED
              THEN Emit([conn EXCEPT !.sock = "closed", !.readyState = ReadyState.CLOSED],
                        [ev |-> "close", code |-> 1006, reason |-> Bytes("Connection closed")])
              ELSE [conn EXCEPT !.sock = "closed"]
         ELSE IF conn.made THEN Emit([conn EXCEPT !.sock = "closed"], [ev |-> "close"])
         ELSE [conn EXCEPT !.sock = "closed"]
    /\ server' = IF conn.made THEN [server EXCEPT !.clients = @ \ {1}] ELSE server
    /\ peer' = [peer EXCEPT !.pending = <<>>]
    /\ bridge' = IF bridge # <<>> /\ <<"close", "tcpSocket.end">> \in bridge.listeners.socket
                 THEN [bridge EXCEPT !.tcpSocket = IF @ = "open" THEN "ended" ELSE @]
                 ELSE bridge
    /\ UNCHANGED <<hs, nonWs>>

\* the socket's 'error' event.  The client's listener; on the server the
\* listener added at accept, which does nothing, and then the container's,
\* whose emit('error') throws where the container has no 'error' listener.
\* The bridge adds none; an application is taken to have added one.
OnSocketError ==
    /\ conn.sock \in {"open", "ended"} /\ conn.thrown = ""
    /\ conn' =
         IF conn.kind = "client"
         THEN Emit([conn EXCEPT !.sock = "destroyed", !.readyState = ReadyState.CLOSED],
                   [ev |-> "error"])
         ELSE IF ~conn.made THEN [conn EXCEPT !.sock = "destroyed"]
         ELSE IF bridge # <<>> /\ ~\E l \in bridge.listeners.container : l[1] = "error"
         THEN [conn EXCEPT !.sock = "destroyed", !.thrown = "Unhandled error"]
         ELSE Emit([conn EXCEPT !.sock = "destroyed"], [ev |-> "error"])
    /\ peer' = [peer EXCEPT !.pending = <<>>]
    /\ UNCHANGED <<hs, server, bridge, nonWs>>

FramesNext == PeerSendFrame \/ OnSocketData \/ OnSocketClose
ServerNext == PeerRequest \/ PeerSendFrame \/ OnSocketData \/ OnSocketClose
ClientNext ==
    ClientConnect \/ PeerRespond \/ PeerSendFrame \/ OnSocketData \/ OnSocketClose
        \/ OnSocketError

SpecFrames == FramesInit /\ [][FramesNext]_vars
SpecServer == ServerInit /\ [][ServerNext]_vars
SpecClient == ClientInit /\ [][ClientNext]_vars

C17_PingUnmasked(c, maskingKey) ==
    IF c.mode = "websocket"
    THEN SendFrame(c, OpCode.PING, <<>>, FALSE, maskingKey)
    ELSE c

\* ping(): a PING frame with an empty payload, in framed mode only
Ping(c, maskingKey) ==
    IF c.mode = "websocket"
    THEN SendFrame(c, OpCode.PING, <<>>, c.kind = "client", maskingKey)
    ELSE c

\* an established connection whose owner calls its methods; calls is the
\* log of the calls made, each with the number of frames handled before it.
\* A server's 'connection' listener may have switched the connection to raw
\* mode already, as WebSocketBridge does with useTcpMode.
CallsInit ==
    /\ CodecIdle /\ RecvIdle /\ app = <<>>
    /\ \E kind \in {"server", "client"}, mode \in {"websocket", "tcp"} :
         /\ mode = "tcp" => kind = "server"
         /\ conn = [calls |-> <<>>] @@ [Established(kind) EXCEPT !.mode = mode]
         /\ server = [clients |-> IF kind = "server" THEN {1} ELSE {}, emitted |-> <<>>]
    /\ hs = [NoHandshake EXCEPT !.isUpgraded = TRUE]
    /\ peer = Peer(MaxHeard)
    /\ bridge = <<>>

\* one tick of the server's ping interval over this.clients
PingSweep ==
    /\ conn.kind = "server" /\ 1 \in server.clients
    /\ Len(conn.calls) < MaxCalls
    /\ \E r \in {IF ~conn.isAlive THEN Destroy(conn)
                  ELSE Ping([conn EXCEPT !.isAlive = FALSE], <<0, 0, 0, 0>>)} :
         conn' = [r EXCEPT !.calls = Append(@, [op |-> "sweep", at |-> Len(conn.handled),
                                                destroyed |-> ~conn.isAlive,
                                                wrote |-> Len(r.out) > Len(conn.out)])]
    /\ server' = IF ~conn.isAlive THEN [server EXCEPT !.clients = @ \ {1}] ELSE server
    /\ UNCHANGED <<hs, peer, bridge, nonWs>>

\* setMode(mode), switchToTCP(), switchToWebSocket()
SetMode ==
    /\ Len(conn.calls) < MaxCalls /\ conn.thrown = ""
    /\ \E mode \in {"websocket", "tcp"} :
         conn' = [conn EXCEPT !.mode = mode,
                              !.calls = Append(@, [op |-> "setMode", at |-> Len(conn.handled)])]
    /\ UNCHANGED <<hs, server, peer, bridge, nonWs>>

\* the owner calls send(data), ping() or close(); an error the call throws
\* goes to the caller.  wrote is the place in out of the buffer send wrote.
Call ==
    /\ Len(conn.calls) < MaxCalls /\ conn.thrown = ""
    /\ \E op \in {"send", "ping", "close"},
          data \in {[t |-> "str", cp |-> <<97>>], [t |-> "buf", bytes |-> <<1, 2>>]},
          maskingKey \in IF conn.kind = "client" THEN MaskKeys ELSE {<<0, 0, 0, 0>>} :
         /\ op # "send" => data.t = "str"
         /\ \E r \in {CASE op = "send" -> Send(conn, data, maskingKey)
                        [] op = "ping" -> Ping(conn, maskingKey)
                        [] op = "close" -> Close(conn, 1000, <<>>, maskingKey)} :
              conn' = [r EXCEPT !.thrown = "",
                                !.calls = Append(@,
                                    [op |-> op, at |-> Len(conn.handled), mode |-> conn.mode,
                                     wrote |-> IF Len(r.out) > Len(conn.out)
                                               THEN Len(r.out) ELSE 0,
                                     threw |-> r.thrown])]
    /\ UNCHANGED <<hs, server, peer, bridge, nonWs>>

CallsNext ==
    PeerSendFrame \/ OnSocketData \/ OnSocketClose \/ PingSweep \/ SetMode \/ Call

SpecCalls == CallsInit /\ [][CallsNext]_vars

\* the bridge's 'connection' listener has run for a connection just made
BridgeInit ==
    /\ CodecIdle /\ RecvIdle /\ app = <<>>
    /\ \E useTcpMode \in BOOLEAN :
         conn = [Established("server") EXCEPT
                    !.mode = IF useTcpMode THEN "tcp" ELSE "websocket"]
    /\ server = [clients |-> {1}, emitted |-> <<[ev |-> "connection"]>>]
    /\ hs = [NoHandshake EXCEPT !.isUpgraded = TRUE]
    /\ peer = Peer(MaxHeard)
    /\ bridge = [listeners |->
                   On(On([socket |-> {}, container |-> {}],
                         "message", "tcpSocket.write"), "close", "tcpSocket.end"),
                 tcpSocket |-> "open", connects |-> 1, written |-> <<>>, heard |-> 0]


\* tcpSocket's 'data' event: ws.send(data)
OnTcpData ==
    /\ bridge.tcpSocket \in {"open", "ended"} /\ conn.thrown = ""
    /\ bridge.heard < MaxBackend
    /\ \E data \in {<<1>>, <<2, 3>>} :
         conn' = Send(conn, [t |-> "buf", bytes |-> data], <<0, 0, 0, 0>>)
    /\ bridge' = [bridge EXCEPT !.heard = @ + 1]
    /\ UNCHANGED <<hs, server, peer, nonWs>>

\* tcpSocket's 'error' event, which its 'close' follows, or its 'close':
\* ws.close()
OnTcpClose ==
    /\ bridge.tcpSocket \in {"open", "ended", "errored"} /\ conn.thrown = ""
    /\ \E ev \in {"error", "close"} :
         /\ ev = "error" => bridge.tcpSocket # "errored"
         /\ bridge' = [bridge EXCEPT !.tcpSocket = IF ev = "error" THEN "errored"
                                                   ELSE "closed"]
    /\ conn' = Close(conn, 1000, <<>>, <<0, 0, 0, 0>>)
    /\ UNCHANGED <<hs, server, peer, nonWs>>

BridgeNext ==
    PeerSendFrame \/ OnSocketData \/ OnSocketClose \/ OnSocketError \/ OnTcpData
        \/ OnTcpClose

SpecBridge == BridgeInit /\ [][BridgeNext]_vars

----------------------------------------------------------------------------
(* Two connections of one NyxWSServer.  Here conn holds the container of    *)
(* each connection in this.clients, and peer.sent the 'data' events so far, *)
(* each with the connection it was emitted on.                              *)

MaxData == 3        \* 'data' events over the connections of one server

C37_SharedBuffer(clients, i, data) ==
    LET d == HandleData(clients[i], data, <<0, 0, 0, 0>>)
    IN [j \in DOMAIN clients |-> IF j = i THEN d ELSE [clients[j] EXCEPT !.buffer = d.buffer]]

\* socket.on('data', data => this.handleData(data)) of connection i: the
\* listener is bound to its own container
Deliver(clients, i, data) ==
    [clients EXCEPT ![i] = HandleData(@, data, <<0, 0, 0, 0>>)]

\* both connections are established; a sweep may have reset isAlive
ClientsInit ==
    /\ CodecIdle /\ RecvIdle /\ app = <<>>
    /\ conn \in [1..2 -> {[Established("server") EXCEPT !.isAlive = alive] :
                              alive \in BOOLEAN}]
    /\ server = [clients |-> {1, 2}, emitted |-> <<>>]
    /\ hs = [NoHandshake EXCEPT !.isUpgraded = TRUE]
    /\ peer = Peer(MaxData)
    /\ bridge = <<>>

\* a 'data' event on connection i: a frame of PeerFrames, its first byte or
\* the bytes after its first byte
OnClientData ==
    /\ peer.quota > 0
    /\ \E i \in server.clients, f \in PeerFrames :
         \E data \in {f.bytes, SubSeq(f.bytes, 1, 1), Tail(f.bytes)} :
           /\ conn[i].sock \in {"open", "ended"} /\ conn[i].thrown = ""
           /\ conn' = Deliver(conn, i, data)
           /\ peer' = [peer EXCEPT !.quota = @ - 1,
                                   !.sent = Append(@, [on |-> i, data |-> data])]
    /\ UNCHANGED <<hs, server, bridge, nonWs>>

SpecClients == ClientsInit /\ [][OnClientData]_vars

---------------------------------------------------------------------------
(* The pure functions of the transport, applied to inputs drawn at the      *)
(* start: a frame built by sendFrame and parsed by the handleData of a       *)
(* NyxWSConnection, a value encoded and decoded by VarInt, a buffer through  *)
(* a Cipher and back, and a packet of Packet.create that reaches             *)
(* Packet.parse with one byte replaced or one byte appended.                 *)

\* packets: PING (0x33) and HANDSHAKE (0x47) with the empty map and with the
\* heartbeat data { load: 55 } of sendHeartbeat
PureInit ==
    /\ \/ \E opcode \in {OpCode[n] : n \in DOMAIN OpCode},
             length \in {0, 1, 125, 126, 127, MaxPayload - 1, MaxPayload},
             masked \in BOOLEAN :
            /\ cin = [opcode |-> opcode, payload |-> [i \in 1..length |-> (7 * i) % 256],
                      masked |-> masked, maskingKey |-> <<1, 2, 3, 4>>]
            /\ cout = <<>>
       \/ \E k \in {0, 7, 14, 21, 28, 31, 32}, ones \in BOOLEAN :
            /\ ones \/ k < 32
            /\ cin = [value |-> MkNum(FALSE, IF ones THEN [i \in 1..k |-> 1]
                                             ELSE Zeros(k) \o <<1>>, 0)]
            /\ cout = <<>>
       \/ /\ cin \in [key : 0..255,
                       buffer : {<<>>, <<0>>, <<255, 0, 94>>,
                                 <<>> \o [i \in 1..MaxCipher |-> (7 * i) % 256]}]
          /\ cout = <<>>
       \/ /\ cin \in [opcode : {51, 71}, encrypt : BOOLEAN,
                       value : {[t |-> "obj", ent |-> <<>>],
                                [t |-> "obj",
                                 ent |-> <<(<<(<<108, 111, 97, 100>>), FromInt(55)>>)>>]}]
          /\ cout = [op |-> "none"]
    /\ RecvIdle /\ WsIdle /\ app = <<>>

DoSendFrame ==
    /\ "payload" \in DOMAIN cin /\ cout = <<>>
    /\ cout' = [frame |-> FrameBytes(cin.opcode, cin.payload, cin.masked, cin.maskingKey)]
    /\ UNCHANGED <<cin, nonCodec>>

DoHandleData ==
    /\ "payload" \in DOMAIN cin /\ cout # <<>> /\ "parsed" \notin DOMAIN cout
    /\ cout' = [frame |-> cout.frame,
                parsed |-> HandleData(Established("server"), cout.frame, <<0, 0, 0, 0>>)]
    /\ UNCHANGED <<cin, nonCodec>>

DoVarIntEncode ==
    /\ DOMAIN cin = {"value"} /\ cout = <<>>
    /\ cout' = [encoded |-> VarIntEncode(cin.value)]
    /\ UNCHANGED <<cin, nonCodec>>

DoVarIntDecode ==
    /\ DOMAIN cin = {"value"} /\ cout # <<>> /\ "decoded" \notin DOMAIN cout
    /\ cout' = [encoded |-> cout.encoded, decoded |-> VarIntDecode(cout.encoded, 0)]
    /\ UNCHANGED <<cin, nonCodec>>

\* cipher.decrypt(cipher.encrypt(buffer)) of a new Cipher(key)
DoCipher ==
    /\ "key" \in DOMAIN cin /\ cout = <<>>
    /\ cout' = [encrypted |-> Encrypt(cin.key, cin.buffer),
                decrypted |-> Encrypt(cin.key, Encrypt(cin.key, cin.buffer))]
    /\ UNCHANGED <<cin, nonCodec>>

\* the buffer handed to Packet.parse is the created packet with the byte at
\* one position replaced by a different value, or with one more byte after it
DoAlter ==
    /\ "encrypt" \in DOMAIN cin
    /\ cout.op = "create" /\ "at" \notin DOMAIN cout
    /\ \E at \in 1..Len(cout.bytes) + 1, byte \in 0..255 :
         /\ at <= Len(cout.bytes) => byte # cout.bytes[at]
         /\ cout' = [op |-> "create", at |-> at, packet |-> cout.bytes,
                     bytes |-> IF at <= Len(cout.bytes)
                               THEN [cout.bytes EXCEPT ![at] = byte]
                               ELSE Append(cout.bytes, byte)]
    /\ UNCHANGED <<cin, nonCodec>>

PureNext ==
    \/ DoSendFrame \/ DoHandleData \/ DoVarIntEncode \/ DoVarIntDecode
    \/ DoCipher \/ DoCreate \/ DoAlter \/ DoParse

SpecPure == PureInit /\ [][PureNext]_vars

---------------------------------------------------------------------------
(* The servers above the protocol, one at a time: MasterServer's            *)
(* matchmaking queue, NameServer's registry, APIKeyAuthPlugin's keys and     *)
(* ChatServer's rooms.  app holds the fields of the one that runs, under     *)
(* their names in the source, and sent, what its last handler sent.          *)

MaxRequests == 4

\* MasterServer.handleMatchmakingRequest for a session that has a player; a
\* field of data that is absent (0 or "" here) takes its default
HandleMatchmakingRequest ==
    /\ "matchmakingQueue" \in DOMAIN app
    /\ app.requests < MaxRequests
    /\ \E player \in 1..2, gameMode \in {"", "ranked"},
          minPlayers \in {0, 3}, maxPlayers \in {0, 2} :
         app' = [app EXCEPT
                   !.requests = @ + 1,
                   !.matchmakingQueue =
                       Append(@, [player |-> player,
                                  gameMode |-> IF gameMode = "" THEN "default" ELSE gameMode,
                                  minPlayers |-> IF minPlayers = 0 THEN 2 ELSE minPlayers,
                                  maxPlayers |-> IF maxPlayers = 0 THEN 10 ELSE maxPlayers,
                                  requestTime |-> app.requests + 1]),
                   !.before = <<>>,
                   !.matches = <<>>,
                   !.sent = <<[to |-> player, opcode |-> "MATCHMAKING_REQUEST"]>>]
    /\ UNCHANGED <<codecVars, recvVars, wsVars>>

\* MasterServer.processMatchmaking, the callback of the one-second interval.
\* before and matches record the queue the pass found and the matches it
\* made, until the next handler runs.
ProcessMatchmaking ==
    /\ "matchmakingQueue" \in DOMAIN app
    /\ LET queue == app.matchmakingQueue
           Group(gameMode) == SelectSeq(queue, LAMBDA r : r.gameMode = gameMode)
           \* the match of the group whose first request is queue[i]
           Match(i) ==
               LET requests == Group(queue[i].gameMode)
               IN IF /\ Len(queue) >= 2
                     /\ \A j \in 1..(i - 1) : queue[j].gameMode # queue[i].gameMode
                     /\ Len(requests) >= requests[1].minPlayers
                  THEN Slice(requests, 0, requests[1].maxPlayers)
                  ELSE <<>>
           matches == SelectSeq([i \in 1..Len(queue) |-> Match(i)], LAMBDA m : m # <<>>)
           Found(match) ==
               [k \in 1..Len(match) |->
                   [to |-> match[k].player, opcode |-> "MATCHMAKING_FOUND",
                    gameMode |-> match[k].gameMode,
                    players |-> [n \in 1..Len(match) |-> match[n].player]]]
           RECURSIVE Sends(_)
           Sends(ms) == IF ms = <<>> THEN <<>> ELSE Found(Head(ms)) \o Sends(Tail(ms))
       IN app' = [app EXCEPT
                    !.matchmakingQueue =
                        SelectSeq(queue, LAMBDA r :
                            \A n \in 1..Len(matches) :
                                \A k \in 1..Len(matches[n]) : matches[n][k] # r),
                    !.before = queue,
                    !.matches = matches,
                    !.sent = Sends(matches)]
    /\ UNCHANGED <<codecVars, recvVars, wsVars>>

MaxNow == 30

\* NameServer.handlePacket for REGISTER_SERVER and PING on a connection's
\* socket: handleRegisterServer, handlePing.  registeredServers is the Map in
\* insertion order; now is Date.now() in seconds, which advances with the
\* ticks of the health check interval.  pinged tells whether the socket has
\* sent a PING since the last tick, and steady the time since which it has
\* sent one in every 5-second period (-1: it missed one).
HandlePacket ==
    /\ "registeredServers" \in DOMAIN app
    /\ \E socket_ \in 1..2 :
         LET servers == app.registeredServers
             Has(key) == \E i \in 1..Len(servers) : servers[i].key = key
             info(key) == [key |-> key, socket |-> socket_, currentLoad |-> 0,
                           lastHeartbeat |-> app.now]
             Mine == {i \in 1..Len(servers) : servers[i].socket = socket_}
             first == CHOOSE i \in Mine : \A j \in Mine : i <= j
         IN \/ \E type \in {"game", "chat"} :
                 app' = [app EXCEPT
                           !.handler = "handleRegisterServer",
                           !.timeouts = <<>>,
                           !.registeredServers =
                               IF Has(type \o ":localhost:9001")
                               THEN [i \in 1..Len(servers) |->
                                       IF servers[i].key = type \o ":localhost:9001"
                                       THEN info(servers[i].key) ELSE servers[i]]
                               ELSE Append(servers, info(type \o ":localhost:9001")),
                           !.sent = <<[to |-> socket_, opcode |-> "REGISTER_SERVER",
                                       serverId |-> type \o ":localhost:9001"]>>]
            \/ \E load \in {-1, 7} :
                 app' = [app EXCEPT
                           !.handler = "handlePing",
                           !.timeouts = <<>>,
                           !.pinged[socket_] = TRUE,
                           !.steady[socket_] = IF @ = -1 THEN app.now ELSE @,
                           !.registeredServers =
                               IF Mine = {} THEN servers
                               ELSE [servers EXCEPT
                                       ![first].lastHeartbeat = app.now,
                                       ![first].currentLoad = IF load = -1 THEN @ ELSE load],
                           !.sent = <<[to |-> socket_, opcode |-> "PONG"]>>]
    /\ UNCHANGED <<codecVars, recvVars, wsVars>>

\* NameServer.healthCheck, the callback of the 5-second interval; timeouts are
\* the servers it reported as timed out
HealthCheck ==
    /\ "registeredServers" \in DOMAIN app
    /\ app.now + 5 <= MaxNow
    /\ LET now == app.now + 5
           Late(info) == now - info.lastHeartbeat > 15
       IN app' = [app EXCEPT
                    !.handler = "healthCheck",
                    !.now = now,
                    !.pinged = <<FALSE, FALSE>>,
                    !.steady = [s \in 1..2 |-> IF app.pinged[s] THEN @[s] ELSE -1],
                    !.timeouts = SelectSeq(app.registeredServers, Late),
                    !.registeredServers =
                        SelectSeq(app.registeredServers, LAMBDA info : ~Late(info)),
                    !.sent = <<>>]
    /\ UNCHANGED <<codecVars, recvVars, wsVars>>

MaxKeys == 2
MaxAuth == 5

\* APIKeyAuthPlugin.handleRPC for 'createKey' and 'revokeKey': createAPIKey,
\* revokeAPIKey.  apiKeys[n] is the data of the n-th key created, whose
\* random name this model writes n; a rateLimit of 0 is one left out.
HandleRPC ==
    /\ "apiKeys" \in DOMAIN app
    /\ \/ /\ Len(app.apiKeys) < MaxKeys
          /\ \E rateLimit \in {0, 1, 2} :
               app' = [app EXCEPT
                         !.handler = "createKey",
                         !.apiKeys = Append(@, [appId |-> "app",
                                                rateLimit |-> IF rateLimit = 0 THEN 1000
                                                              ELSE rateLimit,
                                                requestCount |-> 0,
                                                revokedAt |-> 0]),
                         !.granted = Append(@, 0),
                         !.result = [success |-> TRUE, apiKey |-> Len(app.apiKeys) + 1]]
       \/ \E apiKey \in 1..MaxKeys :
            app' = [app EXCEPT
                      !.handler = "revokeKey",
                      !.apiKeys = IF apiKey \in DOMAIN @
                                  THEN [@ EXCEPT ![apiKey].revokedAt = 1] ELSE @,
                      !.result = [success |-> TRUE]]
    /\ UNCHANGED <<codecVars, recvVars, wsVars>>

\* APIKeyAuthPlugin.authenticate(credentials); apiKey 0 is one left out.
\* granted counts the successes of each key, calls the calls made so far.
Authenticate ==
    /\ "apiKeys" \in DOMAIN app
    /\ app.calls < MaxAuth
    /\ \E apiKey \in 0..MaxKeys, appId \in {"app", "other"} :
         LET keyData == app.apiKeys[apiKey]
             Failure(error) ==
                 [app EXCEPT !.handler = "authenticate", !.calls = @ + 1,
                             !.result = [success |-> FALSE, error |-> error,
                                         apiKey |-> apiKey]]
         IN app' =
              IF apiKey = 0 THEN Failure("API key and App ID required")
              ELSE IF apiKey \notin DOMAIN app.apiKeys THEN Failure("Invalid API key")
              ELSE IF keyData.appId # appId THEN Failure("API key does not match App ID")
              ELSE IF keyData.revokedAt # 0 THEN Failure("API key has been revoked")
              ELSE IF keyData.requestCount > keyData.rateLimit
                   THEN Failure("Rate limit exceeded")
              ELSE [app EXCEPT !.handler = "authenticate", !.calls = @ + 1,
                               !.apiKeys[apiKey].requestCount = @ + 1,
                               !.granted[apiKey] = @ + 1,
                               !.result = [success |-> TRUE, apiKey |-> apiKey]]
    /\ UNCHANGED <<codecVars, recvVars, wsVars>>

DefaultMaxHistory == 100
MaxMessages == 102

C29_DropsNewest(messageHistory, maxHistory, message) ==
    IF Len(messageHistory) + 1 > maxHistory THEN messageHistory
    ELSE Append(messageHistory, message)

\* ChatRoom.addMessage(message): the messageHistory it leaves
AddMessage(messageHistory, maxHistory, message) ==
    IF Len(messageHistory) + 1 > maxHistory
    THEN Tail(Append(messageHistory, message))
    ELSE Append(messageHistory, message)

\* ChatServer.handlePacket for CHAT_ROOM_JOIN, CHAT_ROOM_LEAVE and
\* CHAT_MESSAGE: handleJoinRoom, handleLeaveRoom, handleChatMessage.  User 1
\* joins and leaves the room 'lounge', which its first join creates, and
\* numbers the messages it sends to a room; user 2 is connected and joins no
\* room; Date.now() is 0.  accepted are the messages each room has taken.
HandleChatPacket ==
    /\ "rooms" \in DOMAIN app
    /\ \E roomName \in {"general", "lounge"}, user \in 1..2 :
         LET Broadcast(room, opcode, excludeId) ==
                 IF 1 \in room.users /\ excludeId # 1
                 THEN <<[to |-> 1, opcode |-> opcode, roomName |-> roomName]>>
                 ELSE <<>>
             created == IF roomName \in DOMAIN app.rooms THEN app.rooms
                        ELSE app.rooms @@ [n \in {roomName} |->
                                 [users |-> {}, messageHistory |-> <<>>,
                                  maxHistory |-> DefaultMaxHistory]]
         IN \/ /\ roomName = "lounge" /\ user = 1
               /\ app' = [app EXCEPT
                         !.handler = "handleJoinRoom",
                         !.rooms = [created EXCEPT ![roomName].users = @ \cup {1}],
                         !.accepted = IF roomName \in DOMAIN @ THEN @
                                      ELSE @ @@ [n \in {roomName} |-> <<>>],
                         !.sent = <<[to |-> 1, opcode |-> "CHAT_ROOM_JOIN",
                                     roomName |-> roomName,
                                     history |-> created[roomName].messageHistory]>>]
            \/ /\ roomName = "lounge" /\ user = 1
               /\ roomName \in DOMAIN app.rooms
               /\ app' = [app EXCEPT
                            !.handler = "handleLeaveRoom",
                            !.rooms[roomName].users = @ \ {1},
                            !.sent = <<[to |-> 1, opcode |-> "CHAT_ROOM_LEAVE",
                                        roomName |-> roomName]>>]
            \/ /\ roomName \in DOMAIN app.accepted
                    => Len(app.accepted[roomName]) < MaxMessages
               /\ app' =
                      IF roomName \notin DOMAIN app.rooms
                         \/ user \notin app.rooms[roomName].users
                      THEN [app EXCEPT !.handler = "handleChatMessage", !.sent = <<>>]
                      ELSE LET chatMessage ==
                                   [userId |-> user, timestamp |-> 0,
                                    message |-> Len(app.accepted[roomName]) + 1]
                           IN [app EXCEPT
                                 !.handler = "handleChatMessage",
                                 !.rooms[roomName].messageHistory =
                                     AddMessage(@, app.rooms[roomName].maxHistory,
                                                chatMessage),
                                 !.accepted[roomName] = Append(@, chatMessage),
                                 !.sent = Broadcast(app.rooms[roomName],
                                                    "CHAT_MESSAGE", 0)]
    /\ UNCHANGED <<codecVars, recvVars, wsVars>>

MaxLogins == 3      \* PLAYER_LOGIN packets a Master Server receives

\* MasterServer.handleConnection's listeners for the sessions 1 and 2, both
\* connected: a 'data' event with a PLAYER_LOGIN, which runs handlePlayerLogin
\* up to its await (pending holds the sessions whose authentication is under
\* way), or with a PLAYER_LOGOUT, and the socket's 'close' event
HandleConnection ==
    /\ "sessions" \in DOMAIN app
    /\ \E sessionId \in app.open, event \in {"PLAYER_LOGIN", "PLAYER_LOGOUT", "close"},
          appId \in {"app", "none"} :
         LET Forget(a) ==
                 IF sessionId \in DOMAIN a.sessions
                 THEN [a EXCEPT !.players = @ \ {a.sessions[sessionId]},
                                !.sessions = [x \in DOMAIN @ \ {sessionId} |-> @[x]]]
                 ELSE a
         IN /\ event = "PLAYER_LOGIN" => app.logins < MaxLogins
            /\ event # "PLAYER_LOGIN" => appId = "app"
            /\ app' =
                 CASE event = "PLAYER_LOGIN" ->
                        IF appId = "none"
                        THEN [app EXCEPT !.logins = @ + 1,
                                         !.sent = [to |-> sessionId, success |-> FALSE]]
                        ELSE [app EXCEPT !.logins = @ + 1, !.sent = <<>>,
                                         !.pending = Append(@, sessionId)]
                   [] event = "PLAYER_LOGOUT" -> [Forget(app) EXCEPT !.sent = <<>>]
                   [] event = "close" ->
                        [Forget(app) EXCEPT !.sent = <<>>, !.open = @ \ {sessionId},
                                            !.closed = @ \cup {sessionId}]
    /\ UNCHANGED <<codecVars, recvVars, wsVars>>

\* handlePlayerLogin after its await: the authentication of a pending login
\* is settled, in any order, and the player is entered or refused
HandlePlayerLogin ==
    /\ "sessions" \in DOMAIN app
    /\ \E i \in 1..Len(app.pending), success \in BOOLEAN :
         LET sessionId == app.pending[i]
             playerId == app.nextPlayerId
             rest == SubSeq(app.pending, 1, i - 1)
                        \o SubSeq(app.pending, i + 1, Len(app.pending))
         IN app' =
              IF ~success
              THEN [app EXCEPT !.pending = rest,
                               !.sent = [to |-> sessionId, success |-> FALSE]]
              ELSE [app EXCEPT !.pending = rest,
                               !.nextPlayerId = @ + 1,
                               !.players = @ \cup {playerId},
                               !.owner = Append(@, sessionId),
                               !.sessions = (sessionId :> playerId) @@ @,
                               !.sent = [to |-> sessionId, success |-> TRUE]]
    /\ UNCHANGED <<codecVars, recvVars, wsVars>>

\* GameServer.handlePacket for CREATE_ROOM, JOIN_ROOM and LEAVE_ROOM, and the
\* socket's 'close' handler, for the connected players 1 and 2 and the rooms
\* 'a' and 'b'.  game.room is player.room of each player ('' for null),
\* game.rooms[name].players the keys of the room's players map.
HandleGamePacket ==
    /\ "game" \in DOMAIN app
    /\ \E player \in app.game.players,
          opcode \in {"CREATE_ROOM", "JOIN_ROOM", "LEAVE_ROOM", "close"},
          roomName \in {"a", "b"}, maxPlayers \in {0, 1} :
         LET g == app.game
             RemovePlayer(h) ==
                 IF h.room[player] # ""
                 THEN [h EXCEPT !.rooms[h.room[player]].players = @ \ {player},
                                !.room[player] = ""]
                 ELSE h
             Full(h, name) == Cardinality(h.rooms[name].players) >= h.rooms[name].maxPlayers
             AddPlayer(h, name) ==
                 IF Full(h, name) THEN h
                 ELSE [h EXCEPT !.rooms[name].players = @ \cup {player},
                                !.room[player] = name]
             Reply(success) == <<[to |-> player, opcode |-> opcode, success |-> success]>>
             Others(h, name) ==
                 LET to == h.rooms[name].players \ {player}
                 IN IF to = {} THEN <<>>
                    ELSE <<[to |-> to, opcode |-> "PLAYER_UPDATE", success |-> TRUE]>>
         IN /\ opcode \in {"LEAVE_ROOM", "close"} => roomName = "a"
            /\ opcode # "CREATE_ROOM" => maxPlayers = 0
            /\ app' =
                 CASE opcode = "CREATE_ROOM" ->
                        IF roomName \in DOMAIN g.rooms
                        THEN [app EXCEPT !.sent = Reply(FALSE)]
                        ELSE [game |-> AddPlayer(
                                  [g EXCEPT !.rooms = (roomName :>
                                      [players |-> {},
                                       maxPlayers |-> IF maxPlayers = 0 THEN 10
                                                      ELSE maxPlayers]) @@ @], roomName),
                              sent |-> Reply(TRUE)]
                   [] opcode = "JOIN_ROOM" ->
                        IF roomName \notin DOMAIN g.rooms
                        THEN [app EXCEPT !.sent = Reply(FALSE)]
                        ELSE IF Full(RemovePlayer(g), roomName)
                        THEN [game |-> RemovePlayer(g), sent |-> Reply(FALSE)]
                        ELSE [game |-> AddPlayer(RemovePlayer(g), roomName),
                              sent |-> Reply(TRUE) \o Others(RemovePlayer(g), roomName)]
                   [] opcode = "LEAVE_ROOM" ->
                        IF g.room[player] # ""
                        THEN [game |-> RemovePlayer(g), sent |-> Reply(TRUE)]
                        ELSE [app EXCEPT !.sent = <<>>]
                   [] opcode = "close" ->
                        [game |-> [RemovePlayer(g) EXCEPT !.players = @ \ {player}],
                         sent |-> <<>>]
    /\ UNCHANGED <<codecVars, recvVars, wsVars>>

\* VoiceServer.handlePacket for VOICE_JOIN_CHANNEL and VOICE_LEAVE_CHANNEL, and
\* the socket's 'close' handler, for the connected users 1 and 2 and the
\* channels 'general' and 'team1' of the constructor.  voice.voiceChannel is
\* user.voiceChannel of each user ('' for null); closing is the user whose
\* socket closed in the last event and the channel it was in; thrown is the
\* error the handler raised.
HandleVoicePacket ==
    /\ "voice" \in DOMAIN app /\ app.thrown = ""
    /\ \E user \in app.voice.users \ app.voice.closed,
          opcode \in {"VOICE_JOIN_CHANNEL", "VOICE_LEAVE_CHANNEL", "close"},
          channelName \in {"general", "team1"} :
         LET v == app.voice
             was == v.voiceChannel[user]
             RemoveUser(w) ==
                 [w EXCEPT !.channels[was] = @ \ {user}, !.voiceChannel[user] = ""]
             AddUser(w) ==
                 [w EXCEPT !.channels[channelName] = @ \cup {user},
                           !.voiceChannel[user] = channelName]
             Broadcast(w, name, action, excludeId) ==
                 LET to == w.channels[name] \ {excludeId}
                 IN IF to = {} THEN <<>>
                    ELSE <<[to |-> to, opcode |-> "VOICE_USER_LIST", action |-> action]>>
         IN /\ opcode # "VOICE_JOIN_CHANNEL" => channelName = "general"
            /\ app' =
                 CASE opcode = "VOICE_JOIN_CHANNEL" ->
                        LET w == AddUser(IF was # "" THEN RemoveUser(v) ELSE v)
                        IN [voice |-> w, closing |-> <<>>, thrown |-> "",
                            sent |-> <<[to |-> {user}, opcode |-> opcode, action |-> ""]>>
                                        \o Broadcast(w, channelName, "joined", user)]
                   [] opcode = "VOICE_LEAVE_CHANNEL" ->
                        IF was = "" THEN [app EXCEPT !.closing = <<>>, !.sent = <<>>]
                        ELSE [voice |-> RemoveUser(v), closing |-> <<>>, thrown |-> "",
                              sent |-> Broadcast(v, was, "left", 0)
                                          \o <<[to |-> {user}, opcode |-> opcode,
                                                action |-> ""]>>]
                   [] opcode = "close" ->
                        IF was = ""
                        THEN [voice |-> [v EXCEPT !.users = @ \ {user},
                                                  !.closed = @ \cup {user}],
                              closing |-> [user |-> user, channel |-> was],
                              thrown |-> "", sent |-> <<>>]
                        ELSE [voice |-> [RemoveUser(v) EXCEPT !.closed = @ \cup {user}],
                              closing |-> [user |-> user, channel |-> was],
                              thrown |-> "TypeError", sent |-> <<>>]
    /\ UNCHANGED <<codecVars, recvVars, wsVars>>

AppInit ==
    /\ app \in {[matchmakingQueue |-> <<>>, requests |-> 0, before |-> <<>>,
                 matches |-> <<>>, sent |-> <<>>],
                [registeredServers |-> <<>>, now |-> 0, pinged |-> <<FALSE, FALSE>>,
                 steady |-> <<-1, -1>>,
                 handler |-> "", timeouts |-> <<>>, sent |-> <<>>],
                [apiKeys |-> <<>>, granted |-> <<>>, calls |-> 0,
                 handler |-> "", result |-> <<>>],
                [rooms |-> [n \in {"general"} |->
                               [users |-> {}, messageHistory |-> <<>>,
                                maxHistory |-> DefaultMaxHistory]],
                 accepted |-> [n \in {"general"} |-> <<>>],
                 handler |-> "", sent |-> <<>>],
                [players |-> {}, sessions |-> <<>>, nextPlayerId |-> 1, owner |-> <<>>,
                 open |-> {1, 2}, closed |-> {}, pending |-> <<>>, logins |-> 0,
                 sent |-> <<>>],
                [game |-> [rooms |-> <<>>, players |-> {1, 2}, room |-> <<"", "">>],
                 sent |-> <<>>],
                [voice |-> [users |-> {1, 2}, closed |-> {},
                            channels |-> [n \in {"general", "team1"} |-> {}],
                            voiceChannel |-> <<"", "">>],
                 closing |-> <<>>, thrown |-> "", sent |-> <<>>]}
    /\ CodecIdle /\ RecvIdle /\ WsIdle

AppNext ==
    \/ HandleMatchmakingRequest \/ ProcessMatchmaking
    \/ HandlePacket \/ HealthCheck
    \/ HandleRPC \/ Authenticate
    \/ HandleChatPacket
    \/ HandleConnection \/ HandlePlayerLogin
    \/ HandleGamePacket
    \/ HandleVoicePacket

SpecApp == AppInit /\ [][AppNext]_vars

(* C6: on a connection that holds no earlier fragment, a TEXT or BINARY     *)
(* frame with fin=false, then CONTINUATION frames with fin=false, then a    *)
(* CONTINUATION frame with fin=true: nothing is emitted before the final    *)
(* frame; the final frame emits exactly one message, the concatenation of   *)
(* the payloads in arrival order tagged with the opening frame's opcode,    *)
(* and leaves the fragment accumulator empty.                               *)
C6_FragmentedMessage ==
    LET h == conn.handled
        Before(i) == IF i = 1 THEN 0 ELSE h[i - 1].emitted
        RECURSIVE Concat(_, _)
        Concat(i, j) == IF i > j THEN <<>> ELSE h[i].payload \o Concat(i + 1, j)
        Sequence(i, j) ==
            /\ h[i].opcode \in {OpCode.TEXT, OpCode.BINARY} /\ ~h[i].fin
            /\ i = 1 \/ h[i - 1].frags = 0
            /\ \A k \in (i + 1)..(j - 1) : h[k].opcode = OpCode.CONTINUATION /\ ~h[k].fin
            /\ h[j].opcode = OpCode.CONTINUATION /\ h[j].fin
    IN \A i \in 1..Len(h) : \A j \in (i + 1)..Len(h) :
          Sequence(i, j) =>
             /\ \A k \in i..(j - 1) : h[k].emitted = Before(i)
             /\ h[j].emitted = Before(i) + 1
             /\ conn.emits[Before(i) + 1] =
                   [ev |-> "message",
                    data |-> IF h[i].opcode = OpCode.TEXT
                             THEN [t |-> "str", cp |-> Utf8Decode(Concat(i, j))]
                             ELSE [t |-> "buf", bytes |-> Concat(i, j)]]
             /\ h[j].frags = 0

\* TEXT "a", CONTINUATION C3, final CONTINUATION A9: the text a, e-acute
C6_Witness ==
    /\ Len(conn.handled) = 3
    /\ conn.handled[1].opcode = OpCode.TEXT /\ ~conn.handled[1].fin
    /\ conn.handled[2].opcode = OpCode.CONTINUATION /\ ~conn.handled[2].fin
    /\ conn.handled[3].opcode = OpCode.CONTINUATION /\ conn.handled[3].fin
    /\ conn.emits = <<[ev |-> "message", data |-> [t |-> "str", cp |-> <<97, 233>>]]>>
    /\ conn.fragments = <<>>

(* C7: in framed mode the frames a connection has handled, and the bytes it *)
(* keeps buffered, are those of handling the bytes received so far in one   *)
(* read: exactly the frames that have arrived whole, each once and in the   *)
(* order sent, with the bytes of an incomplete frame left in the buffer.    *)
C7_ReadSplitsDoNotMatter ==
    LET Same(c) ==
            /\ conn.handled = c.handled
            /\ conn.buffer = c.buffer
            /\ conn.fragments = c.fragments
        RECURSIVE Size(_)
        Size(k) == IF k = 0 THEN 0 ELSE Size(k - 1) + Len(peer.sent[k].bytes)
        Whole(k) ==
            /\ Len(conn.handled) = k
            /\ \A i \in 1..k :
                  /\ conn.handled[i].fin = peer.sent[i].fin
                  /\ conn.handled[i].opcode = peer.sent[i].opcode
                  /\ conn.handled[i].payload = peer.sent[i].payload
            /\ conn.buffer = SubSeq(peer.received, Size(k) + 1, Len(peer.received))
    IN (hs.isUpgraded /\ peer.hello = <<>>) =>
          /\ Same(HandleData(Established(conn.kind), peer.received, <<0, 0, 0, 0>>))
          /\ conn.thrown = "" =>
                Whole(Cardinality({k \in 1..Len(peer.sent) : Size(k) <= Len(peer.received)}))

\* two frames handled and a part of the third waiting in the buffer
C7_Witness ==
    /\ hs.isUpgraded /\ peer.hello = <<>> /\ conn.thrown = ""
    /\ Len(peer.sent) = 3 /\ Len(conn.handled) = 2
    /\ conn.buffer # <<>> /\ peer.pending # <<>>

(* C8: the client reaches ready-state OPEN and emits 'open' only if the     *)
(* status line of the response is 101 and its Sec-WebSocket-Accept equals   *)
(* the value expected for the key sent; on any other response it destroys   *)
(* the socket, raises an error and never emits 'open'.                      *)
C8_OpenOnlyOnValidResponse ==
    LET opened == \/ conn.readyState = ReadyState.OPEN
                  \/ \E i \in 1..Len(conn.emits) : conn.emits[i].ev = "open"
        Status(tokens) == Len(tokens) >= 2 /\ tokens[2] = Bytes("101")
        Valid(lines) ==
            /\ Status(Split(lines[1], <<32>>))
            /\ Header(HeaderMap(lines), Bytes("sec-websocket-accept")) = <<AcceptKey(hs.key)>>
        Settled(valid) ==
            /\ opened => valid
            /\ ~valid =>
                  /\ conn.sock \in {"destroyed", "closed"}
                  /\ \E i \in 1..Len(conn.emits) : conn.emits[i].ev = "error"
                  /\ ~opened
    IN (conn.kind = "client" /\ peer.hello # <<>>
          /\ Len(peer.received) >= Len(peer.hello)) =>
          Settled(Valid(HeadLines(peer.hello)))

(* C9: an upgrade request whose request line is not HTTP/1.1, whose Upgrade *)
(* is not 'websocket', whose Connection lacks 'upgrade', whose              *)
(* Sec-WebSocket-Version is not '13' or whose Sec-WebSocket-Key is missing  *)
(* gets no 101 response, no frame, no connection object and no              *)
(* 'connection' event, and the socket is closed, whatever arrives after it. *)
C9_InvalidUpgradeRejected ==
    LET Proper(line) == line[Len(line)] = Bytes("HTTP/1.1")
        Invalid(lines, upgrade, connection, version, key) ==
            \/ ~Proper(Split(lines[1], <<32>>))
            \/ upgrade = <<>> \/ ToLowerCase(upgrade[1]) # Bytes("websocket")
            \/ connection = <<>> \/ ~Includes(ToLowerCase(connection[1]), Bytes("upgrade"))
            \/ version # <<Bytes("13")>>
            \/ key = <<>> \/ key[1] = <<>>
        Mapped(lines, headerMap) ==
            Invalid(lines, Header(headerMap, Bytes("upgrade")),
                    Header(headerMap, Bytes("connection")),
                    Header(headerMap, Bytes("sec-websocket-version")),
                    Header(headerMap, Bytes("sec-websocket-key")))
        Bad(lines) == Mapped(lines, HeaderMap(lines))
    IN (conn.kind = "server" /\ peer.hello # <<>>
          /\ Len(peer.received) >= Len(peer.hello) /\ Bad(HeadLines(peer.hello))) =>
          /\ conn.sock \in {"ended", "closed"}
          /\ \A i \in 1..Len(conn.out) : conn.out[i] = Bytes("HTTP/1.1 400 Bad Request\r\n\r\n")
          /\ ~conn.made
          /\ server.clients = {} /\ server.emitted = <<>>

(* C10: when an upgrade request passes the server's validation, the server  *)
(* writes the 101 response with the Sec-WebSocket-Accept computed from the  *)
(* request's key and no other response, creates the connection, tracks it   *)
(* in clients until its socket closes, emits 'connection' exactly once, and *)
(* the frame engine is handed exactly the bytes received after the header   *)
(* terminator, in order.                                                    *)
C10_UpgradeAccepted ==
    LET Passes(lines, upgrade, connection, version, key) ==
            /\ Includes(lines[1], Bytes("HTTP/1.1"))
            /\ upgrade # <<>> /\ ToLowerCase(upgrade[1]) = Bytes("websocket")
            /\ connection # <<>> /\ Includes(ToLowerCase(connection[1]), Bytes("upgrade"))
            /\ version = <<Bytes("13")>>
            /\ key # <<>> /\ key[1] # <<>>
        Accepted(key) ==
            /\ conn.made
            /\ conn.out # <<>> /\ conn.out[1] = Response101(AcceptKey(key[1]))
            /\ \A i \in 2..Len(conn.out) :
                  Len(conn.out[i]) < 4 \/ SubSeq(conn.out[i], 1, 4) # Bytes("HTTP")
            /\ server.clients = IF conn.sock = "closed" THEN {} ELSE {1}
            /\ server.emitted = <<[ev |-> "connection"]>>
            /\ conn.fed = SubSeq(peer.received, Len(peer.hello) + 1, Len(peer.received))
        Mapped(lines, headerMap) ==
            Passes(lines, Header(headerMap, Bytes("upgrade")),
                   Header(headerMap, Bytes("connection")),
                   Header(headerMap, Bytes("sec-websocket-version")),
                   Header(headerMap, Bytes("sec-websocket-key")))
              => Accepted(Header(headerMap, Bytes("sec-websocket-key")))
        Settled(lines) == Mapped(lines, HeaderMap(lines))
    IN (conn.kind = "server" /\ peer.hello # <<>>
          /\ Len(peer.received) >= Len(peer.hello)) =>
          Settled(HeadLines(peer.hello))

\* the request arrived in two reads, the second one bringing the terminator
\* together with the frame behind it, which the connection has handled
C10_Witness ==
    /\ hs.isUpgraded /\ peer.hello # <<>> /\ peer.cuts = 1
    /\ Len(hs.buffer) > Len(peer.hello)
    /\ Len(conn.handled) = 1 /\ conn.fed = peer.sent[1].bytes
    /\ server.clients = {1}

(* C11: for a connection the server tracks, a liveness sweep that follows    *)
(* another sweep destroys the connection exactly when no PONG frame was      *)
(* handled between the two, and a connection a sweep destroyed is tracked    *)
(* no more.                                                                  *)
C11_SweepLiveness ==
    \A j \in 1..Len(conn.calls) :
        conn.calls[j].op = "sweep" =>
          /\ conn.calls[j].destroyed =>
               1 \notin server.clients /\ conn.sock \in {"destroyed", "closed"}
          /\ \A i \in 1..(j - 1) :
               /\ conn.calls[i].op = "sweep"
               /\ \A k \in (i + 1)..(j - 1) : conn.calls[k].op # "sweep"
               => (conn.calls[j].destroyed <=>
                     ~\E k \in (conn.calls[i].at + 1)..conn.calls[j].at :
                         conn.handled[k].opcode = OpCode.PONG)

C11_Witness ==
    /\ Len(conn.calls) = 2
    /\ conn.calls[1].op = "sweep" /\ conn.calls[2].op = "sweep"
    /\ \E k \in (conn.calls[1].at + 1)..conn.calls[2].at :
         conn.handled[k].opcode = OpCode.PONG
    /\ 1 \in server.clients /\ conn.sock = "open"
    /\ Len(conn.out) = 2

(* C12: in a bridged session, once the front-end socket's 'close' or 'error' *)
(* has been handled the backend socket is open no more, once the backend     *)
(* socket's 'close' or 'error' has been handled the front-end socket is open *)
(* no more, and the session has made one backend connection.                 *)
C12_BothSidesClose ==
    /\ bridge.connects = 1
    /\ conn.sock = "closed" \/ (conn.sock = "destroyed" /\ conn.thrown # "")
         => bridge.tcpSocket # "open"
    /\ bridge.tcpSocket \in {"errored", "closed"} => conn.sock # "open"

(* C13: the messages an accepted front-end connection has emitted, a         *)
(* reassembled message in framed mode and a data chunk in raw mode, are the  *)
(* buffers written to the bridge's backend socket, in the same order.        *)
C13_MessagesReachBackend ==
    LET messages == SelectSeq(conn.emits, LAMBDA e : e.ev = "message")
    IN bridge.written =
         [i \in 1..Len(messages) |->
            IF messages[i].data.t = "str" THEN Utf8Encode(messages[i].data.cp)
            ELSE messages[i].data.bytes]

(* C14: a client's ready-state that is CLOSING or CLOSED is not OPEN or      *)
(* CONNECTING after any later event.                                         *)
C14_ReadyStateForward ==
    [][conn.readyState \in {ReadyState.CLOSING, ReadyState.CLOSED}
         => conn'.readyState \notin {ReadyState.OPEN, ReadyState.CONNECTING}]_vars

(* C15: an endpoint that has handled a CLOSE frame, a NyxWSConnection or a   *)
(* NyxWSClient, has written a CLOSE frame and its socket is open no more.    *)
C15_CloseEchoed ==
    (\E k \in 1..Len(conn.handled) : conn.handled[k].opcode = OpCode.CLOSE)
        => /\ \E i \in 1..Len(conn.out) : conn.out[i][1] % 16 = OpCode.CLOSE
           /\ conn.sock # "open"

(* C16: in framed mode no handler has thrown, and the PONG frames written    *)
(* to the socket are, one for one and in order, the PING frames handled,     *)
(* each with the payload of its PING.                                        *)
C16_PingAnswered ==
    LET pings == SelectSeq(conn.handled, LAMBDA f : f.opcode = OpCode.PING)
        pongs == SelectSeq(conn.out, LAMBDA b : b[1] % 16 = OpCode.PONG)
    IN /\ conn.thrown = ""
       /\ Len(pongs) = Len(pings)
       /\ \A i \in 1..Len(pongs) : NextFrame(pongs[i]).payload = pings[i].payload

(* C17: every frame a NyxWSClient has written has the mask bit set and holds *)
(* a 4-byte masking key between its length and its payload, and every frame  *)
(* a NyxWSConnection has written has the mask bit clear.  The buffers send   *)
(* wrote in raw mode are not frames.                                         *)
C17_ClientMasksServerDoesNot ==
    LET raw == {conn.calls[k].wrote : k \in {j \in 1..Len(conn.calls) :
                    conn.calls[j].op = "send" /\ conn.calls[j].mode = "tcp"}}
    IN \A i \in 1..Len(conn.out) :
         i \notin raw =>
           LET frame == conn.out[i]
               short == frame[2] % 128
               header == IF short = 126 THEN 4 ELSE IF short = 127 THEN 10 ELSE 2
               f == NextFrame(frame)
           IN /\ f.complete /\ f.rest = <<>>
              /\ IF conn.kind = "client"
                 THEN frame[2] >= 128 /\ Len(frame) = header + 4 + Len(f.payload)
                 ELSE frame[2] < 128 /\ Len(frame) = header + Len(f.payload)

C17_Witness ==
    /\ conn.kind = "client"
    /\ Len(conn.out) = 3
    /\ \E i \in 1..3 : conn.out[i][1] % 16 = OpCode.PONG
    /\ \E i \in 1..3 : conn.out[i][1] % 16 = OpCode.PING
    /\ \E i \in 1..3 : conn.out[i][1] % 16 = OpCode.CLOSE

(* C18: a call of setMode changes the mode and nothing else of the           *)
(* connection, its buffer and its fragments included; and a 'data' event     *)
(* that arrives in raw mode delivers the bytes left in the buffer with the   *)
(* new bytes, as one raw message, and leaves the buffer empty.               *)
C18_SetModeKeepsBytes ==
    [][LET n == Len(conn'.calls)
           data == SubSeq(conn'.fed, Len(conn.fed) + 1, Len(conn'.fed))
       IN /\ (n > Len(conn.calls) /\ conn'.calls[n].op = "setMode")
               => conn' = [conn EXCEPT !.mode = conn'.mode, !.calls = conn'.calls]
          /\ (conn'.fed # conn.fed /\ conn.mode = "tcp")
               => /\ conn'.emits = Append(conn.emits,
                        [ev |-> "message",
                         data |-> [t |-> "buf", bytes |-> conn.buffer \o data]])
                  /\ conn'.buffer = <<>>]_vars

(* C19: the bytes sendFrame builds for an opcode, a payload and a mask       *)
(* setting are parsed by handleData into exactly one frame, with fin set,    *)
(* that opcode and that payload, and no byte is left in the buffer.          *)
C19_FrameRoundTrip ==
    (cout # <<>> /\ "parsed" \in DOMAIN cout) =>
        /\ cout.parsed.fed = cout.frame
        /\ Len(cout.parsed.handled) = 1
        /\ cout.parsed.handled[1].fin
        /\ cout.parsed.handled[1].opcode = cin.opcode
        /\ cout.parsed.handled[1].payload = cin.payload
        /\ cout.parsed.buffer = <<>>

C19_Witness ==
    /\ cout # <<>> /\ "parsed" \in DOMAIN cout
    /\ Len(cin.payload) = 127 /\ cin.masked
    /\ Len(cout.frame) = 127 + 8
    /\ cout.parsed.handled[1].payload = cin.payload

(* C20: for an unsigned 32-bit value v, VarInt.decode(VarInt.encode(v), 0)   *)
(* returns the value v and a bytesRead equal to the encoded length.          *)
C20_VarIntRoundTrip ==
    (cout # <<>> /\ "decoded" \in DOMAIN cout) =>
        /\ cout.decoded.err = ""
        /\ cout.decoded.value = cin.value
        /\ cout.decoded.bytesRead = Len(cout.encoded)

(* C21: in a packet built by Packet.create, replacing the byte at any one    *)
(* position, the trailing checksum byte included, by any different value      *)
(* makes Checksum.verify of the bytes before the last against the last byte   *)
(* return false.                                                              *)
C21_SingleByteChangeDetected ==
    ("encrypt" \in DOMAIN cin /\ "at" \in DOMAIN cout /\ cout.at <= Len(cout.packet)) =>
        ~ChecksumVerify(SubSeq(cout.bytes, 1, Len(cout.bytes) - 1),
                        cout.bytes[Len(cout.bytes)])

C21_Witness ==
    /\ "encrypt" \in DOMAIN cin /\ "at" \in DOMAIN cout
    /\ cin.encrypt /\ cin.value.ent # <<>>
    /\ cout.at = Len(cout.packet) - 2
    /\ cout.bytes[cout.at] = (cout.packet[cout.at] + 128) % 256
    /\ ChecksumVerify(SubSeq(cout.packet, 1, Len(cout.packet) - 1),
                      cout.packet[Len(cout.packet)])

(* C22: for every key byte and every byte sequence x, the empty one          *)
(* included, decrypt(encrypt(x)) of a Cipher with that key is x.              *)
C22_CipherRoundTrip ==
    ("key" \in DOMAIN cin /\ cout # <<>>) => cout.decrypted = cin.buffer

C22_Witness ==
    /\ "key" \in DOMAIN cin /\ cout # <<>>
    /\ cin.key = 255 /\ Len(cin.buffer) = MaxCipher
    /\ cout.encrypted # cin.buffer
    /\ cout.encrypted[258] = Xor(Xor(cin.buffer[258], 255), 1)
    /\ cout.decrypted = cin.buffer

(* C24: Packet.parse returns no packet for a buffer whose first two bytes    *)
(* are not 0x42 0x4E (it fails with the invalid magic error), whose version   *)
(* byte is not 0x01 (the unsupported version error), or whose last byte is    *)
(* not the checksum of all the bytes before it.                               *)
C24_ParseRejects ==
    ("encrypt" \in DOMAIN cin /\ cout.op = "parse") =>
        LET buffer == cout.bytes
            magic == buffer[1] = 66 /\ buffer[2] = 78
        IN /\ ~magic => cout.res.err = "Invalid packet magic"
           /\ (magic /\ buffer[3] # 1) => cout.res.err = "Unsupported version"
           /\ buffer[Len(buffer)] # ChecksumCalculate(SubSeq(buffer, 1, Len(buffer) - 1))
                  => cout.res.err # ""

(* C23: Packet.create(opcode, map, encrypt) returns, in this order, the      *)
(* bytes 0x42, 0x4E, 0x01, a flags byte (0x01 when encrypt, otherwise 0x00),  *)
(* the opcode byte, the VarInt of the length of the payload (ciphered when    *)
(* encrypt), the payload bytes, and one last byte equal to                    *)
(* Checksum.calculate of all the bytes before it.                             *)
C23_PacketLayout ==
    cout.op = "create" =>
        LET payload == IF cin.encrypt THEN Encrypt(94, WriteMap(cin.value))
                       ELSE WriteMap(cin.value)
            body == SubSeq(cout.bytes, 1, Len(cout.bytes) - 1)
        IN /\ body = <<66, 78, 1, IF cin.encrypt THEN 1 ELSE 0, cin.opcode>>
                        \o VarIntEncode(FromInt(Len(payload))) \o payload
           /\ cout.bytes = Append(body, ChecksumCalculate(body))

C23_Witness ==
    /\ cout.op = "create"
    /\ cin.encrypt /\ cin.opcode = 146 /\ Len(cin.value.ent) = 2
    /\ SubSeq(cout.bytes, 1, 5) = <<66, 78, 1, 1, 146>>
    /\ cout.bytes[6] = Len(cout.bytes) - 7
    /\ cout.bytes[6] > 4
    /\ SubSeq(cout.bytes, 7, Len(cout.bytes) - 1) # WriteMap(cin.value)

(* C25: readValue on a buffer that ends before the value is complete fails  *)
(* with the error 'Buffer underflow' and returns no value, and on a buffer    *)
(* whose discriminant byte is none of the 14 tags of TYPE it fails with the    *)
(* unknown-type error.                                                        *)
C25_TruncatedOrUnknown ==
    cout.op = "readCut" =>
        IF cout.bytes # <<>> /\ cout.bytes[1] \notin {TYPE[n] : n \in DOMAIN TYPE}
        THEN cout.res.err = "Unknown type"
        ELSE cout.res.err = "Buffer underflow"

(* C26: each match a matchmaking pass forms holds requests of one game     *)
(* mode, at least minPlayers and at most maxPlayers of them, both taken from   *)
(* the first request of that mode in the queue; every matched request has      *)
(* left the queue and its player was sent MATCHMAKING_FOUND; the requests      *)
(* that were not matched are still in the queue in their original order.      *)
C26_MatchesWithinLimits ==
    ("matchmakingQueue" \in DOMAIN app) =>
        LET InMatch(r) == \E n \in 1..Len(app.matches) :
                             \E k \in 1..Len(app.matches[n]) : app.matches[n][k] = r
        IN /\ \A n \in 1..Len(app.matches) :
                LET match == app.matches[n]
                    first == match[1]
                IN /\ \A k \in 1..Len(match) : match[k].gameMode = first.gameMode
                   /\ first = SelectSeq(app.before,
                                        LAMBDA r : r.gameMode = first.gameMode)[1]
                   /\ Len(match) >= first.minPlayers
                   /\ Len(match) <= first.maxPlayers
                   /\ \A k \in 1..Len(match) :
                        \E i \in 1..Len(app.sent) :
                            /\ app.sent[i].to = match[k].player
                            /\ app.sent[i].opcode = "MATCHMAKING_FOUND"
                            /\ app.sent[i].gameMode = first.gameMode
           /\ app.matches # <<>> =>
                app.matchmakingQueue = SelectSeq(app.before, LAMBDA r : ~InMatch(r))

(* C27: a health check removes from the Name Server's registry every        *)
(* registered server whose last heartbeat is more than 15 seconds old, and     *)
(* it never removes a registered server whose registration socket has sent    *)
(* a PING in every 5-second period since the server's last heartbeat.          *)
C27_HealthCheck ==
    ("registeredServers" \in DOMAIN app /\ app.handler = "healthCheck") =>
        /\ \A i \in 1..Len(app.registeredServers) :
             app.now - app.registeredServers[i].lastHeartbeat <= 15
        /\ \A i \in 1..Len(app.timeouts) :
             /\ app.now - app.timeouts[i].lastHeartbeat > 15
             /\ ~ /\ app.steady[app.timeouts[i].socket] # -1
                   /\ app.steady[app.timeouts[i].socket]
                        <= app.timeouts[i].lastHeartbeat + 5

(* C28: an API key created with rate limit L authenticates at most L times;  *)
(* every later authenticate call with it fails with 'Rate limit exceeded'     *)
(* and leaves its request count as it was; a revoked key never                *)
(* authenticates.                                                             *)
C28_RateLimit ==
    ("apiKeys" \in DOMAIN app) =>
        /\ \A apiKey \in DOMAIN app.apiKeys :
             /\ app.granted[apiKey] <= app.apiKeys[apiKey].rateLimit
             /\ app.apiKeys[apiKey].requestCount = app.granted[apiKey]
        /\ (app.handler = "authenticate" /\ app.result.success) =>
             app.apiKeys[app.result.apiKey].revokedAt = 0

(* C29: after any sequence of chat messages, the message history of a chat  *)
(* room holds at most maxHistory entries, and they are the most recent         *)
(* messages the room accepted, in the order it accepted them.                  *)
C29_HistoryIsRecent ==
    ("rooms" \in DOMAIN app) =>
        \A roomName \in DOMAIN app.rooms :
            LET room == app.rooms[roomName]
                accepted == app.accepted[roomName]
                kept == IF Len(accepted) > room.maxHistory THEN room.maxHistory
                        ELSE Len(accepted)
            IN /\ Len(room.messageHistory) <= room.maxHistory
               /\ room.messageHistory =
                     SubSeq(accepted, Len(accepted) - kept + 1, Len(accepted))

C29_Witness ==
    /\ "rooms" \in DOMAIN app /\ "lounge" \in DOMAIN app.rooms
    /\ Len(app.accepted["lounge"]) = DefaultMaxHistory + 1
    /\ Len(app.rooms["lounge"].messageHistory) = DefaultMaxHistory
    /\ app.rooms["lounge"].messageHistory[1] = app.accepted["lounge"][2]
    /\ app.handler = "handleChatMessage" /\ app.sent # <<>>

\* C30: on a framed connection, after any frames handled, a non-empty
\* fragment accumulator starts with a TEXT or BINARY frame that had
\* fin = false (the frame that opened it), and a message emitted from the
\* accumulator is a string when the opening frame was TEXT and a Buffer when
\* it was BINARY
C30_AccumulatorOpcode ==
    LET h == conn.handled
        Frags(i) == IF i = 0 THEN 0 ELSE h[i].frags
        Emitted(i) == IF i = 0 THEN 0 ELSE h[i].emitted
        Opens(i) == Frags(i - 1) = 0 /\ Frags(i) > 0
        Opening(i) == CHOOSE j \in 1..(i - 1) :
                          Opens(j) /\ \A k \in j..(i - 1) : Frags(k) > 0
    IN conn.mode = "websocket" =>
         /\ conn.fragments # <<>> =>
                conn.fragments[1].opcode \in {OpCode.TEXT, OpCode.BINARY}
         /\ \A i \in 1..Len(h) :
                /\ Opens(i) => h[i].opcode \in {OpCode.TEXT, OpCode.BINARY} /\ ~h[i].fin
                /\ (Frags(i - 1) > 0 /\ Frags(i) = 0 /\ Emitted(i) = Emitted(i - 1) + 1) =>
                      conn.emits[Emitted(i)].data.t =
                          (IF h[Opening(i)].opcode = OpCode.TEXT THEN "str" ELSE "buf")

\* C31: handling a PING or PONG frame leaves the fragment accumulator as it
\* was, and a fragmented message (an opening TEXT or BINARY frame, then
\* CONTINUATION frames, the last with fin = true) with PING or PONG frames
\* between its fragments is emitted as the message its data frames make up
C31_ControlFramesInterleaved ==
    LET h == conn.handled
        Control(k) == h[k].opcode \in {OpCode.PING, OpCode.PONG}
        Frags(i) == IF i = 0 THEN 0 ELSE h[i].frags
        RECURSIVE Data(_, _)
        Data(i, j) == IF i > j THEN <<>>
                      ELSE (IF Control(i) THEN <<>> ELSE h[i].payload) \o Data(i + 1, j)
        Sequence(i, j) ==
            /\ h[i].opcode \in {OpCode.TEXT, OpCode.BINARY} /\ ~h[i].fin
            /\ Frags(i - 1) = 0
            /\ \A k \in (i + 1)..(j - 1) :
                  Control(k) \/ (h[k].opcode = OpCode.CONTINUATION /\ ~h[k].fin)
            /\ h[j].opcode = OpCode.CONTINUATION /\ h[j].fin
    IN conn.mode = "websocket" =>
         /\ \A k \in 1..Len(h) : Control(k) => Frags(k) = Frags(k - 1)
         /\ \A i \in 1..Len(h) : \A j \in (i + 1)..Len(h) :
               Sequence(i, j) =>
                  /\ h[j].frags = 0
                  /\ conn.emits[h[j].emitted] =
                        [ev |-> "message",
                         data |-> IF h[i].opcode = OpCode.TEXT
                                  THEN [t |-> "str", cp |-> Utf8Decode(Data(i, j))]
                                  ELSE [t |-> "buf", bytes |-> Data(i, j)]]

\* BINARY 01 02 opening a message, a PING, the final CONTINUATION A9
C31_Witness ==
    /\ Len(conn.handled) = 3
    /\ conn.handled[1].opcode = OpCode.BINARY /\ ~conn.handled[1].fin
    /\ conn.handled[2].opcode = OpCode.PING /\ conn.handled[2].frags = 1
    /\ conn.handled[3].opcode = OpCode.CONTINUATION /\ conn.handled[3].fin
    /\ conn.emits[Len(conn.emits)] =
          [ev |-> "message", data |-> [t |-> "buf", bytes |-> <<1, 2, 169>>]]
    /\ conn.fragments = <<>>

\* C32: the tag writeValue puts before a number: Float for a non-integer
\* (NaN and the infinities included), Long for an integer outside the signed
\* 32-bit range, Byte for an integer in [-128, 127], Short for one in
\* [-32768, 32767], Int for any other integer; never Double
C32_NumberTag ==
    LET v == cin.value
        n == IF v.neg THEN -Val(v.mag) ELSE Val(v.mag)
    IN (cout # <<>> /\ cout.op = "writeValue" /\ v.t = "num") =>
         /\ cout.bytes[1] # TYPE.DOUBLE
         /\ cout.bytes[1] =
               (IF "mag" \notin DOMAIN v \/ v.s > 0 THEN TYPE.FLOAT
                ELSE IF Len(v.mag) > 32 THEN TYPE.LONG
                ELSE IF Len(v.mag) = 32
                THEN (IF v.neg /\ \A i \in 1..31 : v.mag[i] = 0 THEN TYPE.INT
                      ELSE TYPE.LONG)
                ELSE IF -128 <= n /\ n <= 127 THEN TYPE.BYTE
                ELSE IF -32768 <= n /\ n <= 32767 THEN TYPE.SHORT
                ELSE TYPE.INT)

\* 2147483647, the largest integer written as Int
C32_Witness ==
    /\ cout # <<>> /\ cout.op = "writeValue"
    /\ cin.value = FromInt(2147483647)
    /\ cout.bytes = <<TYPE.INT, 127, 255, 255, 255>>

\* C33: an integer n in [-128, 127], negative or not, written by writeValue
\* (tag Byte, one byte) and read back by readValue is returned as n
C33_ByteRoundTrip ==
    (cout # <<>> /\ cout.op = "readValue"
        /\ cin.value \in {FromInt(n) : n \in -128..127}) =>
       /\ cout.bytes[1] = TYPE.BYTE /\ Len(cout.bytes) = 2
       /\ cout.res.err = "" /\ cout.res.val = cin.value

\* C34: on the client the bytes handed to the frame engine (handleData) are
\* never bytes of the handshake response, and once the response has been
\* accepted they are the bytes received after its header terminator, each
\* once and in order
C34_ResponseNotParsed ==
    LET past == SubSeq(peer.received, Len(peer.hello) + 1, Len(peer.received))
    IN conn.kind = "client" =>
         /\ conn.fed \in {<<>>, past}
         /\ conn.readyState = ReadyState.OPEN => conn.fed = past

\* C35: a client connection emits 'close' at most once, whichever of a
\* received CLOSE frame, the socket's 'close' and the socket's 'error' occur
C35_CloseEmittedOnce ==
    conn.kind = "client" =>
       Cardinality({i \in 1..Len(conn.emits) : conn.emits[i].ev = "close"}) <= 1

\* C36: the liveness sweep destroys the connection only if the sweep before
\* it wrote a PING frame to it and no PONG frame was handled in between; a
\* connection in raw mode, to which ping() writes nothing, is not destroyed
C36_SweepDestroysUnanswered ==
    LET calls == conn.calls
        Sweep(i) == calls[i].op = "sweep"
    IN ("calls" \in DOMAIN conn /\ conn.kind = "server") =>
         \A i \in 1..Len(calls) :
            (Sweep(i) /\ calls[i].destroyed) =>
               \E j \in 1..(i - 1) :
                  /\ Sweep(j) /\ \A k \in (j + 1)..(i - 1) : ~Sweep(k)
                  /\ calls[j].wrote
                  /\ \A f \in (calls[j].at + 1)..calls[i].at :
                        conn.handled[f].opcode # OpCode.PONG

\* C37: with two connections on one server, a 'data' event on one of them
\* leaves the other's receive buffer, fragment accumulator, liveness flag
\* and emitted events as they were, whatever events came before
C37_ConnectionsIsolated ==
    [][\A i \in 1..2 : \A j \in (1..2) \ {i} :
          (Len(peer'.sent) > Len(peer.sent) /\ peer'.sent[Len(peer'.sent)].on = i) =>
             /\ conn'[j].buffer = conn[j].buffer
             /\ conn'[j].fragments = conn[j].fragments
             /\ conn'[j].isAlive = conn[j].isAlive
             /\ conn'[j].emits = conn[j].emits]_vars

\* connection 1 holds a fragment and connection 2 half a frame, and
\* connection 1 was the last to receive
C37_Witness ==
    /\ DOMAIN conn = 1..2 /\ Len(peer.sent) = MaxData
    /\ conn[1].fragments # <<>> /\ conn[1].buffer = <<>>
    /\ conn[2].buffer # <<>> /\ conn[2].fragments = <<>>
    /\ peer.sent[MaxData].on = 1 /\ peer.sent[MaxData - 1].on = 2

\* C38: once a session's socket has closed, the Master Server's sessions
\* table has no entry for the session and its players table no player that
\* logged in on it, also when the close came while a login of the session
\* was being authenticated or after the session logged in more than once
C38_ClosedSessionForgotten ==
    "sessions" \in DOMAIN app =>
       \A sessionId \in app.closed :
          /\ sessionId \notin DOMAIN app.sessions
          /\ \A playerId \in app.players : app.owner[playerId] # sessionId

\* C39: on a Game Server, after any CREATE_ROOM, JOIN_ROOM and LEAVE_ROOM
\* requests and disconnects, a player is in a room's players map exactly
\* when player.room is that room, so a player is in one room at most
C39_RoomMembership ==
    "game" \in DOMAIN app =>
       \A player \in 1..2 : \A name \in DOMAIN app.game.rooms :
          player \in app.game.rooms[name].players <=> app.game.room[player] = name

\* C40: when the socket of a voice user who is in a channel closes, the
\* close handler raises no error, the user is in neither that channel nor
\* the server's users table afterwards, and the members left in the channel
\* are sent the 'left' notification
C40_VoiceClose ==
    ("voice" \in DOMAIN app /\ app.closing # <<>> /\ app.closing.channel # "") =>
       LET user == app.closing.user
           members == app.voice.channels[app.closing.channel]
       IN /\ app.thrown = ""
          /\ user \notin members
          /\ user \notin app.voice.users
          /\ members # {} =>
                app.sent = <<[to |-> members, opcode |-> "VOICE_USER_LIST",
                              action |-> "left"]>>

====
